---- MODULE Spec2Model ----
(***************************************************************************)
(* Planning core of the FlowState scheduler: suggestSchedule               *)
(* (utils/scheduler) modelled as a state machine.                          *)
(*                                                                         *)
(* A moment is a number of seconds since 00:00:00 (local time) of a        *)
(* Sunday ("day 0"); sub-second fields behave like the seconds field in    *)
(* every operation used here and are not modelled separately.  Every day   *)
(* has 24 hours (no daylight-saving shift inside the horizon).  An absent  *)
(* optional moment / date is None.                                         *)
(***************************************************************************)
EXTENDS Integers, Sequences, FiniteSets, TLC

None == -1

MINUTE == 60
HOUR == 3600
DAY == 86400

\* Bounds of the model ----------------------------------------------------
\* days of lookahead explored (the source iterates 180 days)
LOOKAHEAD_DAYS == 3
\* at most this many pending tasks in one input
MaxTasks == 2
\* at most this many fixed tasks in one input
MaxFixed == 1

At(day, h, m, s) == day * DAY + h * HOUR + m * MINUTE + s

\* ---- date-fns helpers ---------------------------------------------------
startOfDay(t) == (t \div DAY) * DAY
endOfDay(t) == startOfDay(t) + DAY - 1
getDay(t) == (t \div DAY) % 7
getHours(t) == (t % DAY) \div HOUR
getMinutes(t) == (t % HOUR) \div MINUTE
addMinutes(t, n) == t + n * MINUTE
subMinutes(t, n) == t - n * MINUTE
addDays(t, n) == t + n * DAY
\* setSeconds(setMilliseconds(t, 0), 0)
zeroSeconds(t) == t - (t % MINUTE)
\* setMinutes(setHours(t, h), 0) keeps the seconds of t
setHourMinute0(t, h) == startOfDay(t) + h * HOUR + (t % MINUTE)
isBefore(a, b) == a < b
isAfter(a, b) == a > b
isEqual(a, b) == a = b
\* differenceInMinutes truncates toward zero
differenceInMinutes(a, b) == IF a >= b THEN (a - b) \div MINUTE ELSE 0 - ((b - a) \div MINUTE)
\* areIntervalsOverlapping, non-inclusive
areIntervalsOverlapping(ls, le, rs, re) == ls < re /\ rs < le

Min(a, b) == IF a < b THEN a ELSE b

\* ---- grid helpers (scheduler lines 15-31) --------------------------------
\* mutant: Math.ceil in place of Math.round
roundToNearest15_up(minutes) ==
    LET rounded == ((minutes + 14) \div 15) * 15
    IN IF rounded < 15 THEN 15 ELSE rounded

\* Math.round(minutes / 15) * 15, floor 15
roundToNearest15(minutes) ==
    LET rounded == ((2 * minutes + 15) \div 30) * 15
    IN IF rounded < 15 THEN 15 ELSE rounded

ceilTo15(date) ==
    LET rem == getMinutes(date) % 15
    IN IF rem = 0 THEN zeroSeconds(date)
       ELSE zeroSeconds(addMinutes(date, 15 - rem))

floorTo15(date) ==
    LET rem == getMinutes(date) % 15
    IN zeroSeconds(subMinutes(date, rem))

\* hour as a number of minutes past midnight, so "hour < 11" is "< 11 * 60"
getEnergyScore(energy, start) ==
    LET hm == getHours(start) * 60 + getMinutes(start)
    IN IF energy = "none" THEN 1
       ELSE IF energy = "high"
            THEN (IF hm < 11 * 60 THEN 3 ELSE IF hm < 15 * 60 THEN 2 ELSE 1)
       ELSE IF energy = "medium"
            THEN (IF hm >= 10 * 60 /\ hm < 16 * 60 THEN 3
                  ELSE IF hm >= 8 * 60 /\ hm < 18 * 60 THEN 2 ELSE 1)
       ELSE (IF hm >= 15 * 60 THEN 3 ELSE IF hm >= 12 * 60 THEN 2 ELSE 1)

Slot(s, e) == [start |-> s, end |-> e, duration |-> differenceInMinutes(e, s)]

\* ---- inputs ---------------------------------------------------------------
\* day 1 is a Monday, day 2 the Tuesday after it
Mon(h, m, sec) == At(1, h, m, sec)
Tue(h, m, sec) == At(2, h, m, sec)

Task(id, dur, prio, todo, deadline, earliest, latest, energy, deps) ==
    [id |-> id, title |-> id, durationMinutes |-> dur, priority |-> prio,
     isTodoList |-> todo, deadline |-> deadline, earliestStart |-> earliest,
     latestEnd |-> latest, energy |-> energy, dependencies |-> deps,
     scheduledStart |-> None, scheduledEnd |-> None]

\* pending tasks an input is drawn from (in this order)
TaskCatalogue ==
    << Task("A", 60, "High", FALSE, None, None, None, "none", << >>),
       Task("B", 30, "Medium", FALSE, None, None, None, "none", <<"A">>),
       Task("C", 240, "Medium", FALSE, None, None, None, "none", << >>),
       Task("D", 90, "High", FALSE, None, Mon(9, 30, 0), Mon(10, 7, 0), "none", << >>),
       Task("E", 30, "High", TRUE, None, Mon(10, 0, 30), None, "none", << >>),
       Task("G", 30, "Medium", FALSE, None, None, None, "none", <<"F1">>),
       [Task("H", 20, "Low", TRUE, Mon(0, 0, 0), None, None, "none", << >>)
          EXCEPT !.scheduledStart = Mon(11, 0, 0), !.scheduledEnd = Mon(10, 0, 0)],
       Task("M", 30, "High", FALSE, None, None, Mon(11, 30, 0), "medium", << >>),
       Task("Y", 30, "Low", FALSE, None, None, None, "none", <<"D">>),
       Task("S", 120, "Medium", FALSE, None, None, None, "none", << >>),
       Task("L", 60, "Medium", TRUE, Mon(0, 0, 0), None, Mon(10, 0, 0), "none", << >>),
       Task("N", 15, "Low", FALSE, Mon(0, 0, 0), None, Mon(10, 20, 0), "high", << >>) >>

Fixed(id, status, s, e) ==
    [id |-> id, status |-> status, scheduledStart |-> s, scheduledEnd |-> e]

\* fixed tasks an input is drawn from
FixedCatalogue ==
    << Fixed("F1", "To Do", Mon(9, 0, 0), Mon(10, 0, 30)),
       Fixed("F2", "To Do", Mon(11, 0, 0), Tue(9, 30, 0)),
       Fixed("F3", "Done", Mon(9, 0, 0), Mon(10, 0, 0)),
       Fixed("F4", "In Progress", Tue(10, 0, 0), Tue(10, 20, 0)) >>

NowSet == { Mon(9, 0, 0), Mon(10, 0, 30), Mon(12, 0, 0) }

Settings(ws, we, days, chunking) ==
    [workStartHour |-> ws, workEndHour |-> we, workDays |-> days,
     enableChunking |-> chunking, workChunkMinutes |-> 30,
     shortBreakMinutes |-> 15, longBreakMinutes |-> 30, longBreakInterval |-> 2]

SettingsSet ==
    { Settings(9, 12, {1, 2, 3, 4}, FALSE),
      Settings(9, 12, {1, 3, 4}, TRUE),
      Settings(12, 9, {1, 2, 3, 4}, FALSE) }

RECURSIVE Pick(_, _, _)
\* the entries of cat whose index is in S, in catalogue order, from index i on
Pick(cat, S, i) ==
    IF i > Len(cat) THEN << >>
    ELSE IF i \in S THEN <<cat[i]>> \o Pick(cat, S, i + 1)
    ELSE Pick(cat, S, i + 1)

\* ---- state ----------------------------------------------------------------
VARIABLES
    unscheduledTasks, fixedTasks, currentDate, settings,   \* the arguments
    pc,                   \* position in suggestSchedule
    iterDate, availableWindows,
    winIdx, finalWorkSlots, generatedBreaks, chunkCounter,
    scheduledTasks, taskCompletionTimes, unscheduled,
    scheduledHighTodo, alternateTodo, processedIds,
    task,                 \* index in pendingTasks of the task being placed, 0 for none
    dependencyConstraint, latestConstraint,
    i, remainingDuration, taskParts, slotsToRemove, scheduledEndTime,
    warnings,
    slotsBeforeAttempt,   \* history: finalWorkSlots when the task being placed was picked
    tasks,                \* the host's task list (useAppState)
    lastOp,               \* history: the last operation applied to tasks and its input
    opCount,              \* operations applied to tasks so far
    now,                  \* the clock read by the drift hook
    driftMinutes          \* state of useDriftDetection

inputs == <<unscheduledTasks, fixedTasks, currentDate, settings>>
availVars == <<iterDate, availableWindows>>
rhythmVars == <<winIdx, finalWorkSlots, generatedBreaks, chunkCounter>>
outVars == <<scheduledTasks, taskCompletionTimes, unscheduled, scheduledHighTodo>>
pickVars == <<alternateTodo, processedIds, task, dependencyConstraint, latestConstraint,
              slotsBeforeAttempt>>
fitVars == <<i, remainingDuration, taskParts, slotsToRemove, scheduledEndTime>>
planVars == <<inputs, pc, availVars, rhythmVars, outVars, pickVars, fitVars, warnings>>
hostVars == <<tasks, lastOp, opCount>>
driftVars == <<now, driftMinutes>>
vars == <<planVars, hostVars, driftVars>>

\* no host operation has been applied
NoOp == [op |-> "none", before |-> << >>, id |-> "", start |-> None]

\* the host's task list and the drift hook are not part of a run of suggestSchedule
HostIdle ==
    /\ tasks = << >>
    /\ lastOp = NoOp
    /\ opCount = 0
    /\ now = 0
    /\ driftMinutes = 0

\* lines 240-243
pendingTasks ==
    [k \in DOMAIN unscheduledTasks |->
        [unscheduledTasks[k] EXCEPT !.durationMinutes = roundToNearest15(@)]]

endDate == addDays(startOfDay(currentDate), LOOKAHEAD_DAYS)

RECURSIVE SeedCompletion(_, _)
\* lines 234-238: later entries overwrite earlier ones
SeedCompletion(fs, k) ==
    IF k = 0 THEN << >>
    ELSE LET m == SeedCompletion(fs, k - 1)
             t == fs[k]
         IN IF t.scheduledEnd # None
            THEN [d \in (DOMAIN m) \cup {t.id} |-> IF d = t.id THEN t.scheduledEnd ELSE m[d]]
            ELSE m

\* pools of three tasks in which a later pick still has a todo-list task and a
\* project task to choose from
TrioPools ==
    { { k \in 1..Len(TaskCatalogue) : TaskCatalogue[k].id \in ids } :
        ids \in { {"H", "E", "A"}, {"H", "L", "A"} } }

Init ==
    /\ \E S \in SUBSET (1..Len(TaskCatalogue)) :
          /\ Cardinality(S) <= MaxTasks \/ S \in TrioPools
          /\ unscheduledTasks = Pick(TaskCatalogue, S, 1)
    /\ \E S \in SUBSET (1..Len(FixedCatalogue)) :
          /\ Cardinality(S) <= MaxFixed
          /\ fixedTasks = Pick(FixedCatalogue, S, 1)
    /\ currentDate \in NowSet
    /\ settings \in SettingsSet
    /\ pc = "avail"
    /\ iterDate = startOfDay(currentDate)
    /\ availableWindows = << >>
    /\ winIdx = 1
    /\ finalWorkSlots = << >>
    /\ generatedBreaks = << >>
    /\ chunkCounter = 0
    /\ scheduledTasks = << >>
    /\ taskCompletionTimes = SeedCompletion(fixedTasks, Len(fixedTasks))
    /\ unscheduled = << >>
    /\ scheduledHighTodo = FALSE
    /\ alternateTodo = TRUE
    /\ processedIds = << >>
    /\ task = 0
    /\ dependencyConstraint = None
    /\ latestConstraint = None
    /\ i = 0
    /\ remainingDuration = 0
    /\ taskParts = << >>
    /\ slotsToRemove = << >>
    /\ scheduledEndTime = None
    /\ warnings = << >>
    /\ slotsBeforeAttempt = << >>
    /\ HostIdle

\* ---- 1. availability (lines 69-166) ----------------------------------------
\* lines 69-79: the fixed tasks indexed under the day their start falls on
fixedTasksByDay(dayStart) ==
    SelectSeq(fixedTasks, LAMBDA t :
        /\ t.scheduledStart # None /\ t.scheduledEnd # None
        /\ t.status # "Done"
        /\ startOfDay(t.scheduledStart) = dayStart)

RECURSIVE SplitWindows(_, _, _, _)
\* lines 131-146: one fixed interval subtracted from every window, from index k on
SplitWindows(wins, fStart, fEnd, k) ==
    IF k > Len(wins) THEN << >>
    ELSE LET win == wins[k]
             rest == SplitWindows(wins, fStart, fEnd, k + 1)
         IN IF ~areIntervalsOverlapping(win.start, win.end, fStart, fEnd)
            THEN <<win>> \o rest
            ELSE (IF isBefore(win.start, fStart) THEN <<Slot(win.start, fStart)>> ELSE << >>)
                 \o (IF isAfter(win.end, fEnd) THEN <<Slot(fEnd, win.end)>> ELSE << >>)
                 \o rest

RECURSIVE SubtractFixed(_, _, _)
\* lines 127-147: the fixed tasks fs[1..k] subtracted in order
SubtractFixed(wins, fs, k) ==
    IF k = 0 THEN wins
    ELSE SplitWindows(SubtractFixed(wins, fs, k - 1),
                      fs[k].scheduledStart, fs[k].scheduledEnd, 1)

RECURSIVE AlignWindows(_, _)
\* lines 150-161: final grid alignment, windows shorter than 15 minutes dropped
AlignWindows(wins, k) ==
    IF k > Len(wins) THEN << >>
    ELSE LET alignedStart == ceilTo15(wins[k].start)
             alignedEnd == floorTo15(wins[k].end)
             rest == AlignWindows(wins, k + 1)
         IN IF ~isBefore(alignedStart, alignedEnd) THEN rest
            ELSE IF Slot(alignedStart, alignedEnd).duration >= 15
                 THEN <<Slot(alignedStart, alignedEnd)>> \o rest
                 ELSE rest

\* mutant: the weekday of the day is not looked at
DayWindows_anyWeekday(day) ==
    LET dayStartLimit == ceilTo15(setHourMinute0(day, settings.workStartHour))
        workEnd == floorTo15(setHourMinute0(day, settings.workEndHour))
        fromNow == isBefore(dayStartLimit, currentDate) /\ isBefore(currentDate, workEnd)
        dayOver == ~fromNow /\ isAfter(currentDate, dayStartLimit)
                            /\ isAfter(currentDate, workEnd)
        workStart == IF fromNow THEN ceilTo15(currentDate) ELSE dayStartLimit
        overlappingFixed ==
            SelectSeq(fixedTasksByDay(startOfDay(day)), LAMBDA t :
                isBefore(t.scheduledStart, workEnd) /\ isAfter(t.scheduledEnd, workStart))
    IN IF dayOver THEN << >>
       ELSE IF isAfter(workStart, workEnd) \/ isEqual(workStart, workEnd) THEN << >>
       ELSE AlignWindows(
                SubtractFixed(<<Slot(workStart, workEnd)>>, overlappingFixed,
                              Len(overlappingFixed)), 1)

\* lines 88-163: the windows one day contributes
DayWindows(day) ==
    LET dayOfWeek == getDay(day)
        dayStartLimit == ceilTo15(setHourMinute0(day, settings.workStartHour))
        workEnd == floorTo15(setHourMinute0(day, settings.workEndHour))
        fromNow == isBefore(dayStartLimit, currentDate) /\ isBefore(currentDate, workEnd)
        dayOver == ~fromNow /\ isAfter(currentDate, dayStartLimit)
                            /\ isAfter(currentDate, workEnd)
        workStart == IF fromNow THEN ceilTo15(currentDate) ELSE dayStartLimit
        overlappingFixed ==
            SelectSeq(fixedTasksByDay(startOfDay(day)), LAMBDA t :
                isBefore(t.scheduledStart, workEnd) /\ isAfter(t.scheduledEnd, workStart))
    IN IF dayOfWeek \notin settings.workDays THEN << >>
       ELSE IF dayOver THEN << >>
       ELSE IF isAfter(workStart, workEnd) \/ isEqual(workStart, workEnd) THEN << >>
       ELSE AlignWindows(
                SubtractFixed(<<Slot(workStart, workEnd)>>, overlappingFixed,
                              Len(overlappingFixed)), 1)

\* one iteration of the day loop (lines 87-166)
ProcessDay ==
    /\ pc = "avail"
    /\ availableWindows' = availableWindows \o DayWindows(iterDate)
    /\ iterDate' = addDays(iterDate, 1)
    /\ pc' = IF isBefore(iterDate', endDate) THEN "avail" ELSE "chunk"
    /\ UNCHANGED <<hostVars, driftVars, inputs, rhythmVars, outVars, pickVars, fitVars, warnings>>

\* ---- 2. rhythm (lines 170-224) ---------------------------------------------
\* mutant: the titles of the long and the short break are exchanged
BreakTask_titlesSwapped(cursor, breakEnd, breakDuration, isLongBreak) ==
    [id |-> <<"break", cursor>>,
     title |-> IF isLongBreak THEN "Short Break" ELSE "Long Break",
     durationMinutes |-> breakDuration, priority |-> "Low", status |-> "To Do",
     isFixed |-> TRUE, scheduledStart |-> cursor, scheduledEnd |-> breakEnd,
     projectId |-> "system-break"]

BreakTask(cursor, breakEnd, breakDuration, isLongBreak) ==
    [id |-> <<"break", cursor>>,
     title |-> IF isLongBreak THEN "Long Break" ELSE "Short Break",
     durationMinutes |-> breakDuration, priority |-> "Low", status |-> "To Do",
     isFixed |-> TRUE, scheduledStart |-> cursor, scheduledEnd |-> breakEnd,
     projectId |-> "system-break"]

RECURSIVE ChunkVariant(_, _, _, _, _)
\* the chunking loop with a break only when minLeft minutes of the window remain and
\* the long break decided by the chunk counter less lag
ChunkVariant(cursor, windowEnd, c, minLeft, lag) ==
    LET stop == [slots |-> << >>, breaks |-> << >>, counter |-> c]
        remainingInWindow == differenceInMinutes(windowEnd, cursor)
        settingsChunk == roundToNearest15(settings.workChunkMinutes)
        workDuration == Min(settingsChunk, (remainingInWindow \div 15) * 15)
        workEnd == addMinutes(cursor, workDuration)
        c1 == c + 1
        left == differenceInMinutes(windowEnd, workEnd)
        isLongBreak == (c1 - lag) % settings.longBreakInterval = 0
        targetBreakDuration ==
            roundToNearest15(IF isLongBreak THEN settings.longBreakMinutes
                             ELSE settings.shortBreakMinutes)
        breakDuration == Min(targetBreakDuration, (left \div 15) * 15)
        hasBreak == left >= minLeft /\ breakDuration >= 15
        breakEnd == addMinutes(workEnd, breakDuration)
        next == ChunkVariant(IF hasBreak THEN breakEnd ELSE workEnd, windowEnd, c1,
                             minLeft, lag)
    IN IF ~isBefore(cursor, windowEnd) THEN stop
       ELSE IF remainingInWindow < 15 THEN stop
       ELSE IF workDuration < 15 THEN stop
       ELSE [slots |-> <<[start |-> cursor, end |-> workEnd, duration |-> workDuration]>>
                        \o next.slots,
             breaks |-> (IF hasBreak
                         THEN <<BreakTask(workEnd, breakEnd, breakDuration, isLongBreak)>>
                         ELSE << >>) \o next.breaks,
             counter |-> next.counter]

\* mutant: a break only when a whole hour of the window remains
ChunkFrom_breakNeedsHour(cursor, windowEnd, c) == ChunkVariant(cursor, windowEnd, c, 60, 0)

\* mutant: the long break decided by the counter before the focus slot is counted
ChunkFrom_countsLate(cursor, windowEnd, c) == ChunkVariant(cursor, windowEnd, c, 15, 1)

RECURSIVE ChunkFrom_wholeChunksOnly(_, _, _)
\* mutant: a focus slot is carved only when a whole chunk of the window remains
ChunkFrom_wholeChunksOnly(cursor, windowEnd, c) ==
    LET stop == [slots |-> << >>, breaks |-> << >>, counter |-> c]
        remainingInWindow == differenceInMinutes(windowEnd, cursor)
        workDuration == roundToNearest15(settings.workChunkMinutes)
        workEnd == addMinutes(cursor, workDuration)
        c1 == c + 1
        left == differenceInMinutes(windowEnd, workEnd)
        isLongBreak == c1 % settings.longBreakInterval = 0
        targetBreakDuration ==
            roundToNearest15(IF isLongBreak THEN settings.longBreakMinutes
                             ELSE settings.shortBreakMinutes)
        breakDuration == Min(targetBreakDuration, (left \div 15) * 15)
        hasBreak == left >= 15 /\ breakDuration >= 15
        breakEnd == addMinutes(workEnd, breakDuration)
        next == ChunkFrom_wholeChunksOnly(IF hasBreak THEN breakEnd ELSE workEnd, windowEnd, c1)
    IN IF ~isBefore(cursor, windowEnd) THEN stop
       ELSE IF remainingInWindow < workDuration THEN stop
       ELSE [slots |-> <<[start |-> cursor, end |-> workEnd, duration |-> workDuration]>>
                        \o next.slots,
             breaks |-> (IF hasBreak
                         THEN <<BreakTask(workEnd, breakEnd, breakDuration, isLongBreak)>>
                         ELSE << >>) \o next.breaks,
             counter |-> next.counter]

RECURSIVE ChunkFrom(_, _, _)
\* lines 178-220: the while loop over one window from cursor on, c the chunk counter;
\* yields the focus slots, the breaks and the counter after the loop
ChunkFrom(cursor, windowEnd, c) ==
    LET stop == [slots |-> << >>, breaks |-> << >>, counter |-> c]
        remainingInWindow == differenceInMinutes(windowEnd, cursor)
        settingsChunk == roundToNearest15(settings.workChunkMinutes)
        workDuration == Min(settingsChunk, (remainingInWindow \div 15) * 15)
        workEnd == addMinutes(cursor, workDuration)
        c1 == c + 1
        left == differenceInMinutes(windowEnd, workEnd)
        isLongBreak == c1 % settings.longBreakInterval = 0
        targetBreakDuration ==
            roundToNearest15(IF isLongBreak THEN settings.longBreakMinutes
                             ELSE settings.shortBreakMinutes)
        breakDuration == Min(targetBreakDuration, (left \div 15) * 15)
        hasBreak == left >= 15 /\ breakDuration >= 15
        breakEnd == addMinutes(workEnd, breakDuration)
        next == ChunkFrom(IF hasBreak THEN breakEnd ELSE workEnd, windowEnd, c1)
    IN IF ~isBefore(cursor, windowEnd) THEN stop
       ELSE IF remainingInWindow < 15 THEN stop
       ELSE IF workDuration < 15 THEN stop
       ELSE [slots |-> <<[start |-> cursor, end |-> workEnd, duration |-> workDuration]>>
                        \o next.slots,
             breaks |-> (IF hasBreak
                         THEN <<BreakTask(workEnd, breakEnd, breakDuration, isLongBreak)>>
                         ELSE << >>) \o next.breaks,
             counter |-> next.counter]

\* mutant: the chunk counter starts again at 0 in every window
ChunkWindow_resetsCounter ==
    /\ pc = "chunk"
    /\ settings.enableChunking
    /\ winIdx <= Len(availableWindows)
    /\ LET window == availableWindows[winIdx]
           r == ChunkFrom(window.start, window.end, 0)
       IN /\ finalWorkSlots' = finalWorkSlots \o r.slots
          /\ generatedBreaks' = generatedBreaks \o r.breaks
          /\ chunkCounter' = chunkCounter + r.counter
    /\ winIdx' = winIdx + 1
    /\ pc' = IF winIdx' <= Len(availableWindows) THEN "chunk" ELSE "pick"
    /\ UNCHANGED <<hostVars, driftVars, inputs, availVars, outVars, pickVars, fitVars, warnings>>

\* lines 174-221: one window of the chunking loop
ChunkWindow ==
    /\ pc = "chunk"
    /\ settings.enableChunking
    /\ winIdx <= Len(availableWindows)
    /\ LET window == availableWindows[winIdx]
           r == ChunkFrom(window.start, window.end, chunkCounter)
       IN /\ finalWorkSlots' = finalWorkSlots \o r.slots
          /\ generatedBreaks' = generatedBreaks \o r.breaks
          /\ chunkCounter' = r.counter
    /\ winIdx' = winIdx + 1
    /\ pc' = IF winIdx' <= Len(availableWindows) THEN "chunk" ELSE "pick"
    /\ UNCHANGED <<hostVars, driftVars, inputs, availVars, outVars, pickVars, fitVars, warnings>>

\* lines 222-224 (and the chunking loop over an empty window list)
NoChunking ==
    /\ pc = "chunk"
    /\ ~settings.enableChunking \/ Len(availableWindows) = 0
    /\ finalWorkSlots' = availableWindows
    /\ pc' = "pick"
    /\ UNCHANGED <<hostVars, driftVars, inputs, availVars, winIdx, generatedBreaks, chunkCounter,
                   outVars, pickVars, fitVars, warnings>>

\* ---- 3. ranking and constraints (lines 245-355) -----------------------------
Range(f) == { f[k] : k \in DOMAIN f }

\* mutant: the lowest priority weighs most
getTaskScore_lowFirst(t) ==
    LET pMap == [High |-> 1, Medium |-> 2, Low |-> 3]
    IN pMap[t.priority] * 100
       + (IF t.deadline # None THEN 50 ELSE 0)
       + (IF t.latestEnd # None THEN 60 ELSE 0)

\* lines 245-251
getTaskScore(t) ==
    LET pMap == [High |-> 3, Medium |-> 2, Low |-> 1]
    IN pMap[t.priority] * 100
       + (IF t.deadline # None THEN 50 ELSE 0)
       + (IF t.latestEnd # None THEN 60 ELSE 0)

\* lines 267-273: the comparator, negative when a sorts before b
compareTasks(a, b) ==
    IF getTaskScore(b) # getTaskScore(a) THEN getTaskScore(b) - getTaskScore(a)
    ELSE IF a.deadline # None /\ b.deadline # None THEN a.deadline - b.deadline
    ELSE b.durationMinutes - a.durationMinutes

RECURSIVE InsertSorted(_, _, _)
\* index x of pendingTasks put into the sorted index list after its equals
InsertSorted(sorted, x, k) ==
    IF k > Len(sorted) THEN Append(sorted, x)
    ELSE IF compareTasks(pendingTasks[x], pendingTasks[sorted[k]]) < 0
         THEN SubSeq(sorted, 1, k - 1) \o <<x>> \o SubSeq(sorted, k, Len(sorted))
         ELSE InsertSorted(sorted, x, k + 1)

RECURSIVE sortByScore(_, _)
\* Array.prototype.sort with compareTasks (a stable sort) of arr[1..k]
sortByScore(arr, k) ==
    IF k = 0 THEN << >>
    ELSE InsertSorted(sortByScore(arr, k - 1), arr[k], 1)

Indices(seq) == [k \in 1..Len(seq) |-> k]

\* mutant: a dependency counts only once it has a completion time
readyTasks_needsCompletion ==
    SelectSeq(Indices(pendingTasks), LAMBDA k :
        /\ pendingTasks[k].id \notin Range(processedIds)
        /\ \A d \in Range(pendingTasks[k].dependencies) : d \in DOMAIN taskCompletionTimes)

\* lines 257-260, as indices of pendingTasks
readyTasks ==
    SelectSeq(Indices(pendingTasks), LAMBDA k :
        /\ pendingTasks[k].id \notin Range(processedIds)
        /\ \A d \in Range(pendingTasks[k].dependencies) :
              \/ d \in DOMAIN taskCompletionTimes
              \/ d \notin { pendingTasks[j].id : j \in DOMAIN pendingTasks })

\* mutant: the todo-list tasks with a deadline go first on a todo turn only
selectTask_urgentOnTodoTurn(ready, alternate) ==
    LET todos == SelectSeq(ready, LAMBDA k : pendingTasks[k].isTodoList)
        projects == SelectSeq(ready, LAMBDA k : ~pendingTasks[k].isTodoList)
        readyTodos == sortByScore(todos, Len(todos))
        readyProjects == sortByScore(projects, Len(projects))
        urgentTodos == SelectSeq(readyTodos, LAMBDA k : pendingTasks[k].deadline # None)
    IN IF alternate /\ Len(urgentTodos) > 0 THEN urgentTodos[1]
       ELSE IF alternate /\ Len(readyTodos) > 0 THEN readyTodos[1]
       ELSE IF ~alternate /\ Len(readyProjects) > 0 THEN readyProjects[1]
       ELSE IF Len(readyTodos) > 0 THEN readyTodos[1]
       ELSE readyProjects[1]

\* lines 275-290: the task picked from a non-empty ready list
selectTask(ready, alternate) ==
    LET todos == SelectSeq(ready, LAMBDA k : pendingTasks[k].isTodoList)
        projects == SelectSeq(ready, LAMBDA k : ~pendingTasks[k].isTodoList)
        readyTodos == sortByScore(todos, Len(todos))
        readyProjects == sortByScore(projects, Len(projects))
        urgentTodos == SelectSeq(readyTodos, LAMBDA k : pendingTasks[k].deadline # None)
    IN IF Len(urgentTodos) > 0 THEN urgentTodos[1]
       ELSE IF alternate /\ Len(readyTodos) > 0 THEN readyTodos[1]
       ELSE IF ~alternate /\ Len(readyProjects) > 0 THEN readyProjects[1]
       ELSE IF Len(readyTodos) > 0 THEN readyTodos[1]
       ELSE readyProjects[1]

RECURSIVE DependencyEnd(_, _, _)
\* lines 296-304: the latest completion time of deps[1..k], at least floor
DependencyEnd(deps, k, floor) ==
    IF k = 0 THEN floor
    ELSE LET c == DependencyEnd(deps, k - 1, floor)
         IN IF deps[k] \in DOMAIN taskCompletionTimes
               /\ isAfter(taskCompletionTimes[deps[k]], c)
            THEN taskCompletionTimes[deps[k]] ELSE c

\* lines 296-310
dependencyConstraintOf(t) ==
    LET c == DependencyEnd(t.dependencies, Len(t.dependencies), currentDate)
    IN IF t.earliestStart # None /\ isAfter(t.earliestStart, c) THEN t.earliestStart ELSE c

\* mutant: of a deadline and a latest end the later one is the ceiling
latestConstraintOf_later(t) ==
    LET deadlineConstraint == IF t.deadline # None THEN endOfDay(t.deadline) ELSE None
        explicit == t.latestEnd
    IN IF deadlineConstraint # None /\ explicit # None
       THEN (IF isBefore(deadlineConstraint, explicit) THEN explicit ELSE deadlineConstraint)
       ELSE IF deadlineConstraint # None THEN deadlineConstraint ELSE explicit

\* lines 312-319
latestConstraintOf(t) ==
    LET deadlineConstraint == IF t.deadline # None THEN endOfDay(t.deadline) ELSE None
        explicit == t.latestEnd
    IN IF deadlineConstraint # None /\ explicit # None
       THEN (IF isBefore(deadlineConstraint, explicit) THEN deadlineConstraint ELSE explicit)
       ELSE IF deadlineConstraint # None THEN deadlineConstraint ELSE explicit

\* lines 366-369 (and 331-334)
usableStartOf(slot, dc) ==
    IF isBefore(slot.start, dc) THEN ceilTo15(dc) ELSE slot.start

\* line 373 (and 338)
slotEndOf(slot, lc) ==
    IF lc # None /\ isBefore(lc, slot.end) THEN lc ELSE slot.end

\* lines 364-377 (and 329-342): the slot is not skipped
slotUsable(slot, dc, lc) ==
    LET usableStart == usableStartOf(slot, dc)
        slotEnd == slotEndOf(slot, lc)
    IN /\ slot.duration >= 15
       /\ ~(lc # None /\ isBefore(lc, usableStart))
       /\ ~(isAfter(usableStart, slotEnd) \/ isEqual(usableStart, slotEnd))
       /\ differenceInMinutes(slotEnd, usableStart) >= 15

RECURSIVE BestSlot(_, _, _, _, _, _, _)
\* lines 327-350: the scan from slot k on; index 0 stands for "no best yet"
BestSlot(energy, dc, lc, k, bestIndex, bestScore, bestStart) ==
    IF k > Len(finalWorkSlots) THEN bestIndex
    ELSE LET slot == finalWorkSlots[k]
             usableStart == usableStartOf(slot, dc)
             score == getEnergyScore(energy, usableStart)
         IN IF ~slotUsable(slot, dc, lc)
            THEN BestSlot(energy, dc, lc, k + 1, bestIndex, bestScore, bestStart)
            ELSE IF score > bestScore
                    \/ (score = bestScore
                        /\ (bestStart = None \/ isBefore(usableStart, bestStart)))
                 THEN BestSlot(energy, dc, lc, k + 1, k, score, usableStart)
                 ELSE BestSlot(energy, dc, lc, k + 1, bestIndex, bestScore, bestStart)

\* lines 321-355, 1-based
startSlotIndexOf(t, dc, lc) ==
    IF t.energy = "none" THEN 1
    ELSE LET bestIndex == BestSlot(t.energy, dc, lc, 1, 0, -1, None)
         IN IF bestIndex >= 1 THEN bestIndex ELSE 1

\* one pick of the placement loop (lines 256-360)
PickTask ==
    /\ pc = "pick"
    /\ Cardinality(Range(processedIds)) < Len(pendingTasks)
    /\ Len(readyTasks) > 0
    /\ LET k == selectTask(readyTasks, alternateTodo)
           t == pendingTasks[k]
           dc == dependencyConstraintOf(t)
           lc == latestConstraintOf(t)
       IN /\ task' = k
          /\ alternateTodo' = ~alternateTodo
          /\ processedIds' = Append(processedIds, t.id)
          /\ dependencyConstraint' = dc
          /\ latestConstraint' = lc
          /\ i' = startSlotIndexOf(t, dc, lc)
          /\ remainingDuration' = t.durationMinutes
    /\ taskParts' = << >>
    /\ slotsToRemove' = << >>
    /\ scheduledEndTime' = None
    /\ slotsBeforeAttempt' = finalWorkSlots
    /\ pc' = "fit"
    /\ UNCHANGED <<hostVars, driftVars, inputs, availVars, rhythmVars, outVars, warnings>>

\* the placement loop ends (line 256) or breaks on a blockage (lines 262-265)
EndPlacement ==
    /\ pc = "pick"
    /\ \/ ~(Cardinality(Range(processedIds)) < Len(pendingTasks))
       \/ Len(readyTasks) = 0
    /\ pc' = "finish"
    /\ UNCHANGED <<hostVars, driftVars, inputs, availVars, rhythmVars, outVars, pickVars, fitVars, warnings>>

\* ---- 4. fitting (lines 357-451) --------------------------------------------
\* object spread: the fields of t, overridden and extended by those of o
Spread(t, o) ==
    [f \in (DOMAIN t) \cup (DOMAIN o) |-> IF f \in DOMAIN o THEN o[f] ELSE t[f]]

\* lines 383-388 and 401, the four pieces of the reason text
schedulingReasonOf(t) ==
    << IF settings.enableChunking THEN <<"Optimized for flow", settings.workChunkMinutes>>
       ELSE <<"Scheduled with priority-first order", 0>>,
       <<"Priority placed ahead of lower levels", t.priority>>,
       IF t.energy # "none" THEN t.energy ELSE "",
       IF t.earliestStart # None \/ t.latestEnd # None THEN "Window applied" ELSE "" >>

\* mutant: part_index counted from 0
TaskPart_zeroBased(t, n, fit, partStart, partEnd, unsplit) ==
    Spread(t, [id |-> <<t.id, n>>,
               originalTaskId |-> t.id,
               partIndex |-> n - 1,
               title |-> IF unsplit THEN <<t.title, 0>> ELSE <<t.title, n>>,
               durationMinutes |-> fit,
               scheduledStart |-> partStart,
               scheduledEnd |-> partEnd,
               schedulingReason |-> schedulingReasonOf(t)])

\* mutant: every part keeps the task's own id
TaskPart_plainId(t, n, fit, partStart, partEnd, unsplit) ==
    Spread(t, [id |-> <<t.id, 1>>,
               originalTaskId |-> t.id,
               partIndex |-> n,
               title |-> IF unsplit THEN <<t.title, 0>> ELSE <<t.title, n>>,
               durationMinutes |-> fit,
               scheduledStart |-> partStart,
               scheduledEnd |-> partEnd,
               schedulingReason |-> schedulingReasonOf(t)])

\* line 392: the text of a part's id, taskParts.length === 0 ? task.id :
\* `${task.id}-part-${taskParts.length + 1}`
idText(id) == IF id[2] = 1 THEN id[1] ELSE id[1] \o "-part-" \o ToString(id[2])

\* lines 390-402.  The id <<id, 1>> stands for the task's own id, <<id, n>> for
\* "id-part-n"; the title <<title, 0>> for the plain title, <<title, n>> for "title (n)".
TaskPart(t, n, fit, partStart, partEnd, unsplit) ==
    Spread(t, [id |-> <<t.id, n>>,
               originalTaskId |-> t.id,
               partIndex |-> n,
               title |-> IF unsplit THEN <<t.title, 0>> ELSE <<t.title, n>>,
               durationMinutes |-> fit,
               scheduledStart |-> partStart,
               scheduledEnd |-> partEnd,
               schedulingReason |-> schedulingReasonOf(t)])

\* mutant: the tail of a slot cut in the middle is put in front of its head
slotsAfterPart_tailFirst(slots, k, usableStart, partEnd, fit, availableInSlot) ==
    LET slot == slots[k]
    IN IF isEqual(usableStart, slot.start)
       THEN (IF fit = availableInSlot THEN slots
             ELSE [slots EXCEPT ![k] = Slot(partEnd, slot.end)])
       ELSE SubSeq(slots, 1, k - 1)
            \o (IF isBefore(partEnd, slot.end) THEN <<Slot(partEnd, slot.end)>> ELSE << >>)
            \o <<Slot(slot.start, usableStart)>>
            \o SubSeq(slots, k + 1, Len(slots))

\* lines 407-432: the slot list after a part [usableStart, partEnd) was cut from slot k
slotsAfterPart(slots, k, usableStart, partEnd, fit, availableInSlot) ==
    LET slot == slots[k]
    IN IF isEqual(usableStart, slot.start)
       THEN (IF fit = availableInSlot THEN slots
             ELSE [slots EXCEPT ![k] = Slot(partEnd, slot.end)])
       ELSE SubSeq(slots, 1, k - 1)
            \o <<Slot(slot.start, usableStart)>>
            \o (IF isBefore(partEnd, slot.end) THEN <<Slot(partEnd, slot.end)>> ELSE << >>)
            \o SubSeq(slots, k + 1, Len(slots))

\* one iteration of the fitting loop (lines 362-435)
FitSlot ==
    /\ pc = "fit"
    /\ i <= Len(finalWorkSlots)
    /\ remainingDuration > 0
    /\ LET t == pendingTasks[task]
           slot == finalWorkSlots[i]
           usableStart == usableStartOf(slot, dependencyConstraint)
           slotEnd == slotEndOf(slot, latestConstraint)
           availableInSlot == differenceInMinutes(slotEnd, usableStart)
           fit == Min(availableInSlot, remainingDuration)
           partEnd == addMinutes(usableStart, fit)
           n == Len(taskParts) + 1
           unsplit == remainingDuration = t.durationMinutes /\ fit = remainingDuration
       IN IF ~slotUsable(slot, dependencyConstraint, latestConstraint)
          THEN /\ i' = i + 1
               /\ UNCHANGED <<finalWorkSlots, remainingDuration, taskParts,
                              slotsToRemove, scheduledEndTime>>
          ELSE /\ taskParts' = Append(taskParts,
                                      TaskPart(t, n, fit, usableStart, partEnd, unsplit))
               /\ remainingDuration' = remainingDuration - fit
               /\ scheduledEndTime' = partEnd
               /\ slotsToRemove' =
                     IF isEqual(usableStart, slot.start) /\ fit = availableInSlot
                     THEN Append(slotsToRemove, i) ELSE slotsToRemove
               /\ finalWorkSlots' = slotsAfterPart(finalWorkSlots, i, usableStart,
                                                   partEnd, fit, availableInSlot)
               /\ i' = IF remainingDuration' <= 0 THEN i ELSE i + 1
    /\ pc' = "fit"
    /\ UNCHANGED <<hostVars, driftVars, inputs, availVars, winIdx, generatedBreaks, chunkCounter,
                   outVars, pickVars, warnings>>

\* line 441: the slots at the indices idx spliced out
removeSlots(slots, idx) ==
    SelectSeq([k \in 1..Len(slots) |-> <<k, slots[k]>>], LAMBDA p : p[1] \notin Range(idx))

fitLoopOver == i > Len(finalWorkSlots) \/ remainingDuration <= 0

\* mutant: the parts are put in front of the list
CommitTask_prepends ==
    /\ pc = "fit"
    /\ fitLoopOver
    /\ remainingDuration <= 0 /\ scheduledEndTime # None
    /\ LET t == pendingTasks[task]
           kept == removeSlots(finalWorkSlots, slotsToRemove)
       IN /\ scheduledTasks' = taskParts \o scheduledTasks
          /\ taskCompletionTimes' =
                [d \in (DOMAIN taskCompletionTimes) \cup {t.id} |->
                    IF d = t.id THEN scheduledEndTime ELSE taskCompletionTimes[d]]
          /\ scheduledHighTodo' = (scheduledHighTodo \/ (t.isTodoList /\ t.priority = "High"))
          /\ finalWorkSlots' = [k \in 1..Len(kept) |-> kept[k][2]]
    /\ pc' = "pick"
    /\ UNCHANGED <<hostVars, driftVars, inputs, availVars, winIdx, generatedBreaks, chunkCounter,
                   unscheduled, pickVars, fitVars, warnings>>

\* lines 437-441: the task fitted completely
CommitTask ==
    /\ pc = "fit"
    /\ fitLoopOver
    /\ remainingDuration <= 0 /\ scheduledEndTime # None
    /\ LET t == pendingTasks[task]
           kept == removeSlots(finalWorkSlots, slotsToRemove)
       IN /\ scheduledTasks' = scheduledTasks \o taskParts
          /\ taskCompletionTimes' =
                [d \in (DOMAIN taskCompletionTimes) \cup {t.id} |->
                    IF d = t.id THEN scheduledEndTime ELSE taskCompletionTimes[d]]
          /\ scheduledHighTodo' = (scheduledHighTodo \/ (t.isTodoList /\ t.priority = "High"))
          /\ finalWorkSlots' = [k \in 1..Len(kept) |-> kept[k][2]]
    /\ pc' = "pick"
    /\ UNCHANGED <<hostVars, driftVars, inputs, availVars, winIdx, generatedBreaks, chunkCounter,
                   unscheduled, pickVars, fitVars, warnings>>

\* mutant: the parts cut for a task that did not fit are emitted all the same
RejectTask_keepsParts ==
    /\ pc = "fit"
    /\ fitLoopOver
    /\ ~(remainingDuration <= 0 /\ scheduledEndTime # None)
    /\ scheduledTasks' = scheduledTasks \o taskParts
    /\ unscheduled' = Append(unscheduled,
          [task |-> pendingTasks[task],
           reason |-> IF latestConstraint # None
                      THEN <<"No slot before deadline/window", latestConstraint>>
                      ELSE <<"Insufficient availability", None>>])
    /\ pc' = "pick"
    /\ UNCHANGED <<hostVars, driftVars, inputs, availVars, rhythmVars, taskCompletionTimes,
                   scheduledHighTodo, pickVars, fitVars, warnings>>

\* lines 442-450: the task did not fit
RejectTask ==
    /\ pc = "fit"
    /\ fitLoopOver
    /\ ~(remainingDuration <= 0 /\ scheduledEndTime # None)
    /\ unscheduled' = Append(unscheduled,
          [task |-> pendingTasks[task],
           reason |-> IF latestConstraint # None
                      THEN <<"No slot before deadline/window", latestConstraint>>
                      ELSE <<"Insufficient availability", None>>])
    /\ pc' = "pick"
    /\ UNCHANGED <<hostVars, driftVars, inputs, availVars, rhythmVars, scheduledTasks, taskCompletionTimes,
                   scheduledHighTodo, pickVars, fitVars, warnings>>

\* lines 453-466: the warnings, and the result is returned
Finish ==
    /\ pc = "finish"
    /\ LET slippedProjects == SelectSeq(scheduledTasks, LAMBDA t :
               /\ ~t.isTodoList /\ t.deadline # None /\ t.scheduledEnd # None
               /\ isAfter(t.scheduledEnd, t.deadline))
       IN warnings' = IF scheduledHighTodo /\ Len(slippedProjects) > 0
                      THEN <<Len(slippedProjects)>> ELSE << >>
    /\ pc' = "done"
    /\ UNCHANGED <<hostVars, driftVars, inputs, availVars, rhythmVars, outVars, pickVars, fitVars>>

Next ==
    \/ ProcessDay
    \/ ChunkWindow
    \/ NoChunking
    \/ PickTask
    \/ EndPlacement
    \/ FitSlot
    \/ CommitTask
    \/ RejectTask
    \/ Finish

Spec == Init /\ [][Next]_vars

\* ==== host operations on the task list =====================================
\* (services/geminiService.ts: cascadeTaskMove, resolveOverlaps;
\*  hooks/useDriftDetection.ts: checkDrift).  A moment written to a task is an
\* ISO string (toISOString) read back with new Date: both keep the moment to the
\* millisecond, so a stored moment is the moment itself.

\* at most this many tasks in the host's list, the lists of HostPools apart
MaxHostTasks == 3
\* at most this many operations applied to one task list
MaxOps == 2

HostTask(id, dur, status, s, e, deps) ==
    [id |-> id, durationMinutes |-> dur, status |-> status,
     scheduledStart |-> s, scheduledEnd |-> e, dependencies |-> deps,
     isFixed |-> FALSE, schedulingReason |-> "", projectId |-> ""]

\* the tasks a host list is drawn from (in this order): T with followers S1 and
\* S2, X after both of them, a Done follower K, an unscheduled follower U, W
\* whose scheduled end is not its start plus its duration, V, which depends on
\* W as W depends on V, and a break task as suggestSchedule emits it
HostCatalogue ==
    << HostTask("T", 60, "To Do", Mon(9, 0, 0), Mon(10, 0, 0), << >>),
       HostTask("S1", 30, "To Do", Mon(10, 0, 0), Mon(10, 30, 0), <<"T">>),
       HostTask("S2", 60, "In Progress", Mon(10, 0, 0), Mon(11, 0, 0), <<"T">>),
       HostTask("X", 30, "To Do", Mon(11, 0, 0), Mon(11, 30, 0), <<"S1", "S2">>),
       HostTask("K", 60, "Done", Mon(10, 0, 0), Mon(11, 0, 0), <<"T">>),
       HostTask("U", 30, "To Do", None, None, <<"T">>),
       HostTask("W", 30, "To Do", Mon(9, 30, 0), Mon(11, 30, 0), <<"V">>),
       HostTask("V", 30, "To Do", Mon(9, 0, 0), Mon(9, 30, 0), <<"W">>),
       [HostTask("break", 15, "To Do", Mon(10, 15, 0), Mon(10, 30, 0), << >>)
          EXCEPT !.isFixed = TRUE, !.projectId = "system-break"] >>

\* an identifier that no task of the catalogue has
StaleId == "deleted"

\* the moments a task is dropped on
DropSet == { Mon(8, 30, 0), Mon(10, 0, 0), Mon(10, 45, 0) }

\* suggestSchedule is not running
PlanIdle ==
    /\ unscheduledTasks = << >>
    /\ fixedTasks = << >>
    /\ currentDate = Mon(9, 0, 0)
    /\ settings = Settings(9, 12, {1, 2, 3, 4}, FALSE)
    /\ pc = "idle"
    /\ iterDate = Mon(0, 0, 0)
    /\ availableWindows = << >>
    /\ winIdx = 1
    /\ finalWorkSlots = << >>
    /\ generatedBreaks = << >>
    /\ chunkCounter = 0
    /\ scheduledTasks = << >>
    /\ taskCompletionTimes = << >>
    /\ unscheduled = << >>
    /\ scheduledHighTodo = FALSE
    /\ alternateTodo = TRUE
    /\ processedIds = << >>
    /\ task = 0
    /\ dependencyConstraint = None
    /\ latestConstraint = None
    /\ i = 0
    /\ remainingDuration = 0
    /\ taskParts = << >>
    /\ slotsToRemove = << >>
    /\ scheduledEndTime = None
    /\ warnings = << >>
    /\ slotsBeforeAttempt = << >>

\* lists of four tasks: T with its followers S1 and S2 and X after both of
\* them; T, S1 and W next to the Done task K
HostPools ==
    { { k \in 1..Len(HostCatalogue) : HostCatalogue[k].id \in ids } :
        ids \in { {"T", "S1", "S2", "X"}, {"T", "S1", "K", "W"} } }

HostInit ==
    /\ \E S \in SUBSET (1..Len(HostCatalogue)) :
          /\ Cardinality(S) <= MaxHostTasks \/ S \in HostPools
          /\ tasks = Pick(HostCatalogue, S, 1)
    /\ lastOp = NoOp
    /\ opCount = 0
    /\ now = 0
    /\ driftMinutes = 0
    /\ PlanIdle

\* ---- cascadeTaskMove (geminiService.ts lines 428-480) ----------------------
\* taskMap.get(id): the position of the task in the map, 0 when it has none
IndexOf(list, id) ==
    IF \E k \in DOMAIN list : list[k].id = id
    THEN CHOOSE k \in DOMAIN list : list[k].id = id
    ELSE 0

\* mutant: the moved task is not marked fixed
movedTo_notFixed(t, start) ==
    [t EXCEPT !.scheduledStart = start,
              !.scheduledEnd = addMinutes(start, t.durationMinutes),
              !.schedulingReason = "Manually moved by user"]

\* mutant: the moved task keeps the scheduled end it had
movedTo_keepsEnd(t, start) ==
    [t EXCEPT !.scheduledStart = start,
              !.isFixed = TRUE,
              !.schedulingReason = "Manually moved by user"]

\* lines 441-444: the task moved to start
movedTo(t, start) ==
    [t EXCEPT !.scheduledStart = start,
              !.scheduledEnd = addMinutes(start, t.durationMinutes),
              !.isFixed = TRUE,
              !.schedulingReason = "Manually moved by user"]

RECURSIVE moveRecursively(_, _, _)
RECURSIVE pushSuccessors(_, _, _, _)
RECURSIVE pullPredecessors(_, _, _)

\* lines 447-457: the successors[n..] of the task at position k pushed in turn;
\* each successor's start is read when its turn comes
pushSuccessors(st, k, successors, n) ==
    IF n > Len(successors) THEN st
    ELSE LET successor == st.taskMap[successors[n]]
             taskEnd == st.taskMap[k].scheduledEnd
             moved == IF successor.scheduledStart # None
                         /\ isBefore(successor.scheduledStart, taskEnd)
                      THEN moveRecursively(st, successor.id, taskEnd)
                      ELSE st
         IN pushSuccessors(moved, k, successors, n + 1)

\* lines 460-474: the dependencies [n..] of the task at position k pulled in turn
pullPredecessors(st, k, n) ==
    LET t == st.taskMap[k]
    IN IF n > Len(t.dependencies) THEN st
       ELSE LET j == IndexOf(st.taskMap, t.dependencies[n])
                dep == st.taskMap[j]
                moved == IF j # 0 /\ dep.scheduledEnd # None
                            /\ isAfter(dep.scheduledEnd, t.scheduledStart)
                         THEN moveRecursively(st, dep.id,
                                  subMinutes(t.scheduledStart, dep.durationMinutes))
                         ELSE st
            IN pullPredecessors(moved, k, n + 1)

\* mutant: the visited set is looked at only after the task has been given its start
moveRecursively_marksLate(st, id, start) ==
    LET seen == [st EXCEPT !.visited = @ \cup {id}]
        k == IndexOf(st.taskMap, id)
    IN IF k = 0 THEN seen
       ELSE LET placed == [seen EXCEPT !.taskMap[k] = movedTo(@, start),
                                       !.moves = Append(@, id)]
                successors == SelectSeq(Indices(placed.taskMap), LAMBDA j :
                                  id \in Range(placed.taskMap[j].dependencies))
            IN IF id \in st.visited THEN placed
               ELSE pullPredecessors(pushSuccessors(placed, k, successors, 1), k, 1)

\* lines 433-476; st is the task map (in insertion order), the visited set and
\* the identifiers of the tasks given a start so far, in the order of the updates
moveRecursively(st, id, start) ==
    IF id \in st.visited THEN st
    ELSE LET seen == [st EXCEPT !.visited = @ \cup {id}]
             k == IndexOf(st.taskMap, id)
         IN IF k = 0 THEN seen
            ELSE LET placed == [seen EXCEPT !.taskMap[k] = movedTo(@, start),
                                            !.moves = Append(@, id)]
                     successors == SelectSeq(Indices(placed.taskMap), LAMBDA j :
                                       id \in Range(placed.taskMap[j].dependencies))
                 IN pullPredecessors(pushSuccessors(placed, k, successors, 1), k, 1)

\* lines 430-431 and 479: the state the recursion starts from, and its run
cascadeRun(allTasks, taskId, newStart) ==
    moveRecursively([taskMap |-> allTasks, visited |-> {}, moves |-> << >>], taskId, newStart)

cascadeTaskMove(allTasks, taskId, newStart) == cascadeRun(allTasks, taskId, newStart).taskMap

\* ---- resolveOverlaps (geminiService.ts lines 483-520) -----------------------
RECURSIVE InsertByStart(_, _, _)
\* x put into the list sorted by scheduled start, after the entries starting with it
InsertByStart(sorted, x, k) ==
    IF k > Len(sorted) THEN Append(sorted, x)
    ELSE IF x.scheduledStart - sorted[k].scheduledStart < 0
         THEN SubSeq(sorted, 1, k - 1) \o <<x>> \o SubSeq(sorted, k, Len(sorted))
         ELSE InsertByStart(sorted, x, k + 1)

RECURSIVE sortByStart(_, _)
\* Array.prototype.sort by scheduled start (a stable sort) of arr[1..k]
sortByStart(arr, k) ==
    IF k = 0 THEN << >>
    ELSE InsertByStart(sortByStart(arr, k - 1), arr[k], 1)

\* mutant: the Done tasks are not left out
sortedTasksOf_withDone(ts) ==
    LET kept == SelectSeq(ts, LAMBDA t : t.scheduledStart # None /\ t.scheduledEnd # None)
    IN sortByStart(kept, Len(kept))

\* lines 484-486
sortedTasksOf(ts) ==
    LET kept == SelectSeq(ts, LAMBDA t :
                    t.scheduledStart # None /\ t.scheduledEnd # None /\ t.status # "Done")
    IN sortByStart(kept, Len(kept))

\* mutant: next is nudged a quarter of an hour later, wherever current ends
updatedNext_nudged(current, next) ==
    [next EXCEPT !.scheduledStart = addMinutes(next.scheduledStart, 15),
                 !.scheduledEnd = addMinutes(next.scheduledStart, 15 + next.durationMinutes),
                 !.isFixed = TRUE,
                 !.schedulingReason = "Auto-resolved conflict"]

\* lines 503-511: next moved to begin where current ends
updatedNext(current, next) ==
    [next EXCEPT !.scheduledStart = current.scheduledEnd,
                 !.scheduledEnd = addMinutes(current.scheduledEnd, next.durationMinutes),
                 !.isFixed = TRUE,
                 !.schedulingReason = "Auto-resolved conflict"]

RECURSIVE shiftFrom(_, _)
\* lines 493-516: the loop from index n on; sorted is the running view, in which a
\* shifted task replaces the one it was
shiftFrom(sorted, n) ==
    IF n > Len(sorted) - 1 THEN sorted
    ELSE LET current == sorted[n]
             next == sorted[n + 1]
         IN IF isAfter(current.scheduledEnd, next.scheduledStart)
            THEN shiftFrom([sorted EXCEPT ![n + 1] = updatedNext(current, next)], n + 1)
            ELSE shiftFrom(sorted, n + 1)

\* mutant: every pair is compared as the input has it, not as the loop left it
resolveOverlaps_inputView(ts) ==
    LET sorted == sortedTasksOf(ts)
        shifted == [n \in DOMAIN sorted |->
                       IF n > 1 /\ isAfter(sorted[n - 1].scheduledEnd, sorted[n].scheduledStart)
                       THEN updatedNext(sorted[n - 1], sorted[n]) ELSE sorted[n]]
    IN [k \in DOMAIN ts |->
           IF IndexOf(shifted, ts[k].id) # 0
           THEN shifted[IndexOf(shifted, ts[k].id)] ELSE ts[k]]

\* lines 483-520
resolveOverlaps(ts) ==
    LET sorted == sortedTasksOf(ts)
        shifted == shiftFrom(sorted, 1)
    IN IF Len(sorted) = 0 THEN ts
       ELSE [k \in DOMAIN ts |->
                IF IndexOf(shifted, ts[k].id) # 0
                THEN shifted[IndexOf(shifted, ts[k].id)] ELSE ts[k]]

\* ---- the handlers of the host (useAppState lines 459-486) -------------------
\* handleTaskMove: a task is dropped on a moment of the calendar, or where it is;
\* or the identifier passed names no task of the list
CascadeMove ==
    /\ pc = "idle"
    /\ opCount < MaxOps
    /\ \/ \E k \in DOMAIN tasks :
             \E newStart \in DropSet \cup ({tasks[k].scheduledStart} \ {None}) :
                /\ tasks' = cascadeTaskMove(tasks, tasks[k].id, newStart)
                /\ lastOp' = [op |-> "cascade", before |-> tasks,
                              id |-> tasks[k].id, start |-> newStart]
       \/ /\ tasks' = cascadeTaskMove(tasks, StaleId, Mon(10, 0, 0))
          /\ lastOp' = [op |-> "cascade", before |-> tasks,
                        id |-> StaleId, start |-> Mon(10, 0, 0)]
    /\ opCount' = opCount + 1
    /\ UNCHANGED <<planVars, driftVars>>

\* handleResolveConflicts
ResolveConflicts ==
    /\ pc = "idle"
    /\ opCount < MaxOps
    /\ tasks' = resolveOverlaps(tasks)
    /\ lastOp' = [op |-> "resolve", before |-> tasks, id |-> "", start |-> None]
    /\ opCount' = opCount + 1
    /\ UNCHANGED <<planVars, driftVars>>

HostNext ==
    \/ CascadeMove
    \/ ResolveConflicts

HostSpec == HostInit /\ [][HostNext]_vars

\* ---- useDriftDetection (hooks/useDriftDetection.ts lines 5-34) --------------
\* the moments at which the clock is looked at
ClockSet ==
    { Mon(9, 59, 30), Mon(10, 0, 0), Mon(10, 0, 30), Mon(10, 1, 0), Mon(10, 30, 0),
      Mon(10, 31, 30), Mon(11, 0, 0), Mon(11, 45, 0), Mon(12, 0, 0) }

\* date-fns isPast against the clock
isPast(date, clock) == date < clock

RECURSIVE maxDriftOver(_, _, _)
\* lines 11-23: the forEach over ts[1..k]
maxDriftOver(ts, clock, k) ==
    IF k = 0 THEN 0
    ELSE LET maxDrift == maxDriftOver(ts, clock, k - 1)
             t == ts[k]
             diff == differenceInMinutes(clock, t.scheduledEnd)
         IN IF t.scheduledEnd # None /\ t.status # "Done"
               /\ isPast(t.scheduledEnd, clock) /\ diff > maxDrift
            THEN diff ELSE maxDrift

\* mutant: the drift of the task that ran over last, not the largest drift
checkDrift_latestOverrun(ts, clock) ==
    LET over == { k \in DOMAIN ts : ts[k].scheduledEnd # None /\ ts[k].status # "Done"
                                    /\ isPast(ts[k].scheduledEnd, clock) }
    IN IF over = {} THEN 0
       ELSE LET k == CHOOSE j \in over :
                        \A h \in over : ts[h].scheduledEnd <= ts[j].scheduledEnd
            IN differenceInMinutes(clock, ts[k].scheduledEnd)

\* lines 9-25: the value checkDrift sets
checkDrift(ts, clock) == maxDriftOver(ts, clock, Len(ts))

DriftInit ==
    /\ \E S \in SUBSET (1..Len(HostCatalogue)) :
          /\ Cardinality(S) <= MaxHostTasks
          /\ tasks = Pick(HostCatalogue, S, 1)
    /\ lastOp = NoOp
    /\ opCount = 0
    /\ now \in ClockSet
    /\ driftMinutes = 0
    /\ PlanIdle

\* time passes
Tick ==
    /\ pc = "idle"
    /\ now' \in ClockSet
    /\ now' > now
    /\ UNCHANGED <<planVars, hostVars, driftMinutes>>

\* the first check and the interval callback (lines 27-28)
CheckDrift ==
    /\ pc = "idle"
    /\ driftMinutes' = checkDrift(tasks, now)
    /\ UNCHANGED <<planVars, hostVars, now>>

\* line 33
resetDrift ==
    /\ pc = "idle"
    /\ driftMinutes' = 0
    /\ UNCHANGED <<planVars, hostVars, now>>

DriftNext ==
    \/ Tick
    \/ CheckDrift
    \/ resetDrift

DriftSpec == DriftInit /\ [][DriftNext]_vars

\* ---- handleAutoSchedule (hooks/useDriftDetection.ts lines 489-566) ----------
\* at most this many tasks in the list the action starts from
MaxAutoTasks == 2
\* at most this many runs of the action on one list
MaxRuns == 2

\* a task of the host's list: the title <<title, n>> stands for "title (n)",
\* <<title, 0>> for the plain title; originalTaskId "" and partIndex 0 stand
\* for undefined
AutoTask(t, status, fixed, s, e) ==
    Spread(t, [title |-> <<t.title, 0>>, status |-> status, isFixed |-> fixed,
               projectId |-> "", originalTaskId |-> "", partIndex |-> 0,
               scheduledStart |-> s, scheduledEnd |-> e, schedulingReason |-> ""])

\* the tasks a list is drawn from (in this order): a pending task A, a Done
\* task K, D which fits nowhere and Y which waits for D, the first part of a
\* split task S and its second part pinned by the user, a break, and a pinned
\* task O of last Sunday
AutoCatalogue ==
    << AutoTask(Task("A", 60, "High", FALSE, None, None, None, "none", << >>),
                "To Do", FALSE, None, None),
       AutoTask(Task("K", 30, "Medium", FALSE, None, None, None, "none", << >>),
                "Done", FALSE, Mon(9, 0, 0), Mon(9, 30, 0)),
       AutoTask(Task("D", 90, "High", FALSE, None, Mon(9, 30, 0), Mon(10, 7, 0), "none", << >>),
                "To Do", FALSE, None, None),
       AutoTask(Task("Y", 30, "Low", FALSE, None, None, None, "none", <<"D">>),
                "To Do", FALSE, None, None),
       [AutoTask(Task("S", 60, "Medium", FALSE, None, None, None, "none", << >>),
                 "To Do", FALSE, Mon(9, 0, 0), Mon(10, 0, 0))
          EXCEPT !.title = <<"S", 1>>, !.originalTaskId = "S", !.partIndex = 1],
       [AutoTask(Task("S-part-2", 60, "Medium", FALSE, None, None, None, "none", << >>),
                 "To Do", TRUE, Tue(9, 0, 0), Tue(10, 0, 0))
          EXCEPT !.title = <<"S", 2>>, !.originalTaskId = "S", !.partIndex = 2],
       [AutoTask(Task("break-1", 15, "Low", FALSE, None, None, None, "none", << >>),
                 "To Do", TRUE, Mon(9, 30, 0), Mon(9, 45, 0))
          EXCEPT !.projectId = "system-break"],
       AutoTask(Task("O", 30, "Medium", FALSE, None, None, None, "none", << >>),
                "To Do", TRUE, At(0, 10, 0, 0), At(0, 10, 30, 0)) >>

\* lines 494-510
processedTasksOf(ts, clock, autoRescheduleOverdue) ==
    IF autoRescheduleOverdue
    THEN [k \in DOMAIN ts |->
            LET t == ts[k]
            IN IF t.status # "Done" /\ t.scheduledStart # None
                  /\ isBefore(t.scheduledStart, startOfDay(clock))
               THEN Spread(t, [scheduledStart |-> None, scheduledEnd |-> None,
                               isFixed |-> FALSE,
                               schedulingReason |-> "Auto-rescheduled overdue"])
               ELSE t]
    ELSE ts

\* line 512
fixedOf(processedTasks) ==
    SelectSeq(processedTasks, LAMBDA t :
        (t.isFixed /\ t.projectId # "system-break") \/ t.status = "Done")

\* line 513
floatersOf(processedTasks) ==
    SelectSeq(processedTasks, LAMBDA t :
        ~t.isFixed /\ t.status # "Done" /\ t.projectId # "system-break")

\* line 518
rootId(t) == IF t.originalTaskId # "" THEN t.originalTaskId ELSE t.id

RECURSIVE uniqueTasksMap(_, _)
\* lines 516-539: the values of the map after floaters[1..k], in insertion order
uniqueTasksMap(floaters, k) ==
    IF k = 0 THEN << >>
    ELSE LET m == uniqueTasksMap(floaters, k - 1)
             t == floaters[k]
         IN IF \E j \in DOMAIN m : m[j].id = rootId(t)
            THEN [j \in DOMAIN m |->
                    IF m[j].id = rootId(t)
                    THEN [m[j] EXCEPT !.durationMinutes = @ + t.durationMinutes]
                    ELSE m[j]]
            ELSE Append(m, Spread(t, [id |-> rootId(t), title |-> t.title[1],
                                      durationMinutes |-> t.durationMinutes,
                                      originalTaskId |-> "", partIndex |-> 0,
                                      scheduledStart |-> None, scheduledEnd |-> None,
                                      schedulingReason |-> ""]))

\* line 549
doneTasksOf(processedTasks) == SelectSeq(processedTasks, LAMBDA t : t.status = "Done")

\* lines 550-556
unscheduledClean(us) ==
    [k \in DOMAIN us |->
        Spread(us[k].task, [title |-> <<us[k].task.title, 0>>,
                            scheduledStart |-> None, scheduledEnd |-> None,
                            isFixed |-> FALSE, schedulingReason |-> us[k].reason])]

\* result.scheduled as entries of the host's list: the id as its text
scheduledOf(parts) == [k \in DOMAIN parts |-> [parts[k] EXCEPT !.id = idText(@)]]

AutoInit ==
    /\ \E S \in SUBSET (1..Len(AutoCatalogue)) :
          /\ Cardinality(S) <= MaxAutoTasks
          /\ tasks = Pick(AutoCatalogue, S, 1)
    /\ lastOp = NoOp
    /\ opCount = 0
    /\ now = 0
    /\ driftMinutes = 0
    /\ PlanIdle

\* lines 489-546: the action up to the call of suggestSchedule
handleAutoSchedule ==
    /\ pc = "idle"
    /\ opCount < MaxRuns
    /\ \E clock \in NowSet, userSettings \in SettingsSet, autoRescheduleOverdue \in BOOLEAN :
          LET processedTasks == processedTasksOf(tasks, clock, autoRescheduleOverdue)
              fixed == fixedOf(processedTasks)
              floaters == floatersOf(processedTasks)
          IN /\ unscheduledTasks' = uniqueTasksMap(floaters, Len(floaters))
             /\ fixedTasks' = fixed
             /\ currentDate' = clock
             /\ settings' = userSettings
             /\ iterDate' = startOfDay(clock)
             /\ taskCompletionTimes' = SeedCompletion(fixed, Len(fixed))
             /\ lastOp' = [op |-> "autoStart", before |-> processedTasks,
                           id |-> "", start |-> None]
    /\ pc' = "avail"
    /\ UNCHANGED <<tasks, opCount, driftVars, availableWindows, rhythmVars, scheduledTasks,
                   unscheduled, scheduledHighTodo, pickVars, fitVars, warnings>>

\* lines 548-566: the result of suggestSchedule is written to the list
handleAutoScheduleResult ==
    /\ pc = "done"
    /\ lastOp.op = "autoStart"
    /\ tasks' = fixedOf(lastOp.before) \o doneTasksOf(lastOp.before)
                   \o scheduledOf(scheduledTasks) \o unscheduledClean(unscheduled)
    /\ lastOp' = [op |-> "auto", before |-> tasks, id |-> "", start |-> None]
    /\ opCount' = opCount + 1
    /\ driftMinutes' = 0
    /\ unscheduledTasks' = << >>
    /\ fixedTasks' = << >>
    /\ currentDate' = Mon(9, 0, 0)
    /\ settings' = Settings(9, 12, {1, 2, 3, 4}, FALSE)
    /\ pc' = "idle"
    /\ iterDate' = Mon(0, 0, 0)
    /\ availableWindows' = << >>
    /\ winIdx' = 1
    /\ finalWorkSlots' = << >>
    /\ generatedBreaks' = << >>
    /\ chunkCounter' = 0
    /\ scheduledTasks' = << >>
    /\ taskCompletionTimes' = << >>
    /\ unscheduled' = << >>
    /\ scheduledHighTodo' = FALSE
    /\ alternateTodo' = TRUE
    /\ processedIds' = << >>
    /\ task' = 0
    /\ dependencyConstraint' = None
    /\ latestConstraint' = None
    /\ i' = 0
    /\ remainingDuration' = 0
    /\ taskParts' = << >>
    /\ slotsToRemove' = << >>
    /\ scheduledEndTime' = None
    /\ warnings' = << >>
    /\ slotsBeforeAttempt' = << >>
    /\ UNCHANGED now

AutoNext ==
    \/ handleAutoSchedule
    \/ ProcessDay
    \/ ChunkWindow
    \/ NoChunking
    \/ PickTask
    \/ EndPlacement
    \/ FitSlot
    \/ CommitTask
    \/ RejectTask
    \/ Finish
    \/ handleAutoScheduleResult

AutoSpec == AutoInit /\ [][AutoNext]_vars

\* ==== properties of the plan ================================================
\* the result is returned
Returned == pc = "done"

\* half-open intervals [s1, e1) and [s2, e2) intersect with positive measure
Overlaps(s1, e1, s2, e2) == s1 < e2 /\ s2 < e1

OnGrid(t) == t % (15 * MINUTE) = 0

\* the intervals the plan generated: the scheduled parts, then the breaks
GeneratedIntervals ==
    [k \in 1..Len(scheduledTasks) |->
        <<scheduledTasks[k].scheduledStart, scheduledTasks[k].scheduledEnd>>]
    \o [k \in 1..Len(generatedBreaks) |->
        <<generatedBreaks[k].scheduledStart, generatedBreaks[k].scheduledEnd>>]

\* the fixed events of the input: not Done, both endpoints set
FixedEvents ==
    { f \in Range(fixedTasks) :
        f.status # "Done" /\ f.scheduledStart # None /\ f.scheduledEnd # None }

\* the parts placed for the task with this id, in emission order
PartsOf(id) == SelectSeq(scheduledTasks, LAMBDA p : p.originalTaskId = id)

\* C1: in the returned plan no generated interval (scheduled part or break)
\* overlaps another generated interval or a fixed event of the input.
C1_NoOverlap ==
    Returned =>
        /\ \A a, b \in DOMAIN GeneratedIntervals :
              a < b => ~Overlaps(GeneratedIntervals[a][1], GeneratedIntervals[a][2],
                                 GeneratedIntervals[b][1], GeneratedIntervals[b][2])
        /\ \A a \in DOMAIN GeneratedIntervals : \A f \in FixedEvents :
              ~Overlaps(GeneratedIntervals[a][1], GeneratedIntervals[a][2],
                        f.scheduledStart, f.scheduledEnd)

\* C2: in the returned plan every part of a task starts at or after the end of
\* every part of each of its dependencies that the plan placed, and at or after
\* the scheduled end of each of its dependencies that is a fixed task.
C2_DependencyRespect ==
    Returned =>
        \A p \in Range(scheduledTasks) : \A d \in Range(p.dependencies) :
            /\ \A q \in Range(PartsOf(d)) : q.scheduledEnd <= p.scheduledStart
            /\ \A f \in Range(fixedTasks) :
                  (f.id = d /\ f.scheduledEnd # None) => f.scheduledEnd <= p.scheduledStart

\* C3: in the returned plan every part of a task with earliest_start starts at
\* or after it and every part of a task with latest_end ends at or before it.
C3_WindowRespect ==
    Returned =>
        \A p \in Range(scheduledTasks) :
            /\ p.earliestStart # None => p.scheduledStart >= p.earliestStart
            /\ p.latestEnd # None => p.scheduledEnd <= p.latestEnd

\* C4: in the returned plan every part starts and ends on the 15-minute grid and
\* has a duration that is a positive multiple of 15.
C4_GridAligned ==
    Returned =>
        \A p \in Range(scheduledTasks) :
            /\ OnGrid(p.scheduledStart) /\ OnGrid(p.scheduledEnd)
            /\ p.durationMinutes > 0 /\ p.durationMinutes % 15 = 0

\* an interval lies inside the work hours of one active calendar day
InWorkHours(s, e) ==
    LET d == startOfDay(s)
    IN /\ getDay(d) \in settings.workDays
       /\ d + settings.workStartHour * HOUR <= s
       /\ s <= e
       /\ e <= d + settings.workEndHour * HOUR

\* C5: every scheduled part and every break task lies inside
\* [work_start_hour, work_end_hour] of one calendar day whose weekday is active.
C5_WorkHours ==
    \A k \in DOMAIN GeneratedIntervals :
        InWorkHours(GeneratedIntervals[k][1], GeneratedIntervals[k][2])

\* a plan with breaks and with parts on two different days, one inactive day between
C5_Witness ==
    /\ Returned
    /\ 2 \notin settings.workDays
    /\ Len(generatedBreaks) > 0
    /\ \E p, q \in Range(scheduledTasks) :
          startOfDay(q.scheduledStart) >= addDays(startOfDay(p.scheduledStart), 2)

Abs(x) == IF x < 0 THEN 0 - x ELSE x

\* the multiple of 15, at least 15, nearest to d (the larger one on a tie)
Nearest15(d) ==
    LET cands == { 15 * n : n \in 1..((Abs(d) \div 15) + 1) }
    IN CHOOSE m \in cands :
          \A m2 \in cands :
              \/ Abs(m - d) < Abs(m2 - d)
              \/ (Abs(m - d) = Abs(m2 - d) /\ m >= m2)

RECURSIVE SumDurations(_, _)
SumDurations(parts, k) ==
    IF k = 0 THEN 0 ELSE SumDurations(parts, k - 1) + parts[k].durationMinutes

\* the scheduled entries whose identifier derives from this task id, in emission order
PartsById(id) == SelectSeq(scheduledTasks, LAMBDA p : p.id[1] = id)

\* the shape of the parts of every placed task, their durations summing to total(t)
PartsConserve(total(_)) ==
    /\ \A p \in Range(scheduledTasks) :
          \E k \in DOMAIN unscheduledTasks : p.id[1] = unscheduledTasks[k].id
    /\ \A k \in DOMAIN unscheduledTasks :
          LET t == unscheduledTasks[k]
              ps == PartsById(t.id)
          IN Len(ps) > 0 =>
                /\ SumDurations(ps, Len(ps)) = total(t)
                /\ \A j \in DOMAIN ps :
                      ps[j].originalTaskId = t.id /\ ps[j].partIndex = j

\* C6 as stated: the parts of a placed task sum to its planned duration, carry
\* its id as original_task_id and are numbered 1..k in emission order.
C6_Original == PartsConserve(LAMBDA t : t.durationMinutes)

\* C6 amended: ... sum to the planned duration rounded to the nearest multiple
\* of 15 (at least 15), which is the planned duration when that is a positive
\* multiple of 15; original_task_id and part_index as stated.
C6_SplitConservation == PartsConserve(LAMBDA t : Nearest15(t.durationMinutes))

\* a plan that split one task into several parts and placed another task whose
\* duration is not a multiple of 15
C6_Witness ==
    /\ Returned
    /\ \E k \in DOMAIN unscheduledTasks :
          /\ Len(PartsById(unscheduledTasks[k].id)) >= 2
          /\ unscheduledTasks[k].durationMinutes % 15 = 0
    /\ \E k \in DOMAIN unscheduledTasks :
          /\ Len(PartsById(unscheduledTasks[k].id)) >= 1
          /\ unscheduledTasks[k].durationMinutes % 15 # 0

\* C7: in the returned plan every input task is in scheduled (as its parts) or
\* in unscheduled; in particular the tasks left pending when the ready set
\* became empty are in unscheduled.
C7_AllAccounted ==
    Returned =>
        \A k \in DOMAIN unscheduledTasks :
            \/ Len(PartsOf(unscheduledTasks[k].id)) > 0
            \/ \E j \in DOMAIN unscheduled : unscheduled[j].task.id = unscheduledTasks[k].id

PosIn(seq, x) == CHOOSE j \in DOMAIN seq : seq[j] = x

\* the task at index k of the input still waits for a pending dependency
Blocked(k) ==
    \E d \in Range(unscheduledTasks[k].dependencies) :
        /\ d \notin DOMAIN taskCompletionTimes
        /\ \E j \in DOMAIN unscheduledTasks : unscheduledTasks[j].id = d

\* C8: a task whose fitting walk ended with remaining duration > 0 is once in
\* unscheduled and has no part in scheduled; its reason is 'No slot before
\* deadline/window' when it has a deadline or latest_end and 'Insufficient
\* availability' otherwise; and the plan goes on: it ends only when every task
\* was picked or the tasks left are blocked by a dependency.
C8_RejectedTask ==
    /\ \A j \in DOMAIN unscheduled :
          LET t == unscheduled[j].task
          IN /\ Len(PartsById(t.id)) = 0
             /\ \A j2 \in DOMAIN unscheduled : unscheduled[j2].task.id = t.id => j2 = j
             /\ unscheduled[j].reason[1] =
                   IF t.deadline # None \/ t.latestEnd # None
                   THEN "No slot before deadline/window"
                   ELSE "Insufficient availability"
    /\ (pc = "pick" /\ task # 0 /\ remainingDuration > 0) =>
          /\ Len(unscheduled) > 0
          /\ unscheduled[Len(unscheduled)].task.id = unscheduledTasks[task].id
    /\ pc \in {"finish", "done"} =>
          \A k \in DOMAIN unscheduledTasks :
              unscheduledTasks[k].id \in Range(processedIds) \/ Blocked(k)

\* a task was rejected after some of its parts had been cut, and a task picked
\* after it was placed
C8_Witness ==
    /\ Returned
    /\ \E j \in DOMAIN unscheduled : \E p \in Range(scheduledTasks) :
          /\ PosIn(processedIds, unscheduled[j].task.id) < PosIn(processedIds, p.originalTaskId)
          /\ ~OnGrid(p.scheduledStart)

\* the input breaks an invariant of the data model
InvalidInput ==
    \/ \E k \in DOMAIN unscheduledTasks :
          \/ unscheduledTasks[k].durationMinutes <= 0
          \/ unscheduledTasks[k].durationMinutes % 15 # 0
          \/ /\ unscheduledTasks[k].scheduledStart # None
             /\ unscheduledTasks[k].scheduledEnd # None
             /\ unscheduledTasks[k].scheduledStart >= unscheduledTasks[k].scheduledEnd
    \/ settings.workEndHour <= settings.workStartHour

SortedByStart ==
    \A a, b \in DOMAIN scheduledTasks :
        a < b =>
            \/ scheduledTasks[a].scheduledStart < scheduledTasks[b].scheduledStart
            \/ /\ scheduledTasks[a].scheduledStart = scheduledTasks[b].scheduledStart
               /\ scheduledTasks[a].partIndex <= scheduledTasks[b].partIndex

\* C10 as stated: the returned scheduled list is ordered by scheduled start and,
\* among equal starts, by part_index.
C10_Original == Returned => SortedByStart

\* C10 amended: the scheduled list is in placement order: the tasks appear in
\* the order in which they were picked, the parts of one task are adjacent, in
\* part_index order, each starting at or after the end of the part before it.
C10_PlacementOrder ==
    \A a, b \in DOMAIN scheduledTasks :
        a < b =>
            LET pa == scheduledTasks[a]
                pb == scheduledTasks[b]
            IN IF pa.originalTaskId = pb.originalTaskId
               THEN /\ pa.partIndex < pb.partIndex
                    /\ pa.scheduledEnd <= pb.scheduledStart
                    /\ \A c \in a..b : scheduledTasks[c].originalTaskId = pa.originalTaskId
               ELSE PosIn(processedIds, pa.originalTaskId)
                       < PosIn(processedIds, pb.originalTaskId)

\* two tasks were placed, the one picked first at the later time
C10_Witness ==
    /\ Returned
    /\ ~SortedByStart
    /\ \E p, q \in Range(scheduledTasks) : p.originalTaskId # q.originalTaskId

\* ==== properties of the rhythm ==============================================
\* the chunking loop has run and no task has been placed yet
ChunkingDone ==
    pc = "pick" /\ task = 0 /\ Len(processedIds) = 0 /\ settings.enableChunking

\* the focus slots cut from the free window w
FocusOf(w) == SelectSeq(finalWorkSlots, LAMBDA s : w.start <= s.start /\ s.end <= w.end)

\* C12: with chunking enabled, inside one free window a focus slot is followed
\* by a break task if and only if at least 15 minutes of the window remain
\* after it, and any two consecutive focus slots of the window have a break
\* task lying between them.
C12_BreakAfterFocus ==
    ChunkingDone =>
        \A w \in DOMAIN availableWindows :
            LET win == availableWindows[w]
                focus == FocusOf(win)
            IN /\ \A n \in DOMAIN focus :
                     (\E b \in DOMAIN generatedBreaks :
                         /\ generatedBreaks[b].scheduledStart = focus[n].end
                         /\ generatedBreaks[b].scheduledEnd <= win.end)
                     <=> differenceInMinutes(win.end, focus[n].end) >= 15
               /\ \A n \in 1..(Len(focus) - 1) :
                     \E b \in DOMAIN generatedBreaks :
                         /\ focus[n].end <= generatedBreaks[b].scheduledStart
                         /\ generatedBreaks[b].scheduledEnd <= focus[n + 1].start

\* a window cut into several focus slots, the last of which ends with the window
\* and has no break after it
C12_Witness ==
    /\ ChunkingDone
    /\ \E w \in DOMAIN availableWindows :
          LET win == availableWindows[w]
              focus == FocusOf(win)
          IN /\ Len(focus) >= 3
             /\ focus[Len(focus)].end = win.end
             /\ \E b \in DOMAIN generatedBreaks :
                   generatedBreaks[b].scheduledStart = focus[1].end

\* C13 as stated: in the sequence of breaks emitted by one plan, over all free
\* windows, the k-th break is a Long break exactly when k is a multiple of the
\* long-break cadence.
C13_Original ==
    ChunkingDone =>
        \A k \in DOMAIN generatedBreaks :
            (generatedBreaks[k].title = "Long Break")
            <=> (k % settings.longBreakInterval = 0)

\* the focus slots of the plan that end at or before the moment t
FocusSlotsUpTo(t) == Cardinality({ n \in DOMAIN finalWorkSlots : finalWorkSlots[n].end <= t })

\* C13 amended: a break is a Long break exactly when the number of focus slots
\* emitted before it, over all free windows and counting the slots that no
\* break follows, is a multiple of the long-break cadence.
C13_LongAfterCountedSlots ==
    ChunkingDone =>
        \A k \in DOMAIN generatedBreaks :
            (generatedBreaks[k].title = "Long Break")
            <=> (FocusSlotsUpTo(generatedBreaks[k].scheduledStart)
                    % settings.longBreakInterval = 0)

\* a window ended with a focus slot, and the fourth break of the plan is short
C13_Witness ==
    /\ ChunkingDone
    /\ Len(generatedBreaks) >= 4
    /\ generatedBreaks[4].title = "Short Break"
    /\ generatedBreaks[2].title = "Long Break"

\* ==== properties of the host operations =====================================
\* an operation has been applied to the task list
Applied(op) == lastOp.op = op

\* C11: no operation changes a Done task; cascade_move and resolve_conflicts
\* return every Done task of their input with the scheduled start, scheduled
\* end, is_fixed flag and reason it had.
C11_DoneUntouched ==
    ~Applied("none") =>
        \A k \in DOMAIN lastOp.before :
            lastOp.before[k].status = "Done" =>
                /\ tasks[k].id = lastOp.before[k].id
                /\ tasks[k].scheduledStart = lastOp.before[k].scheduledStart
                /\ tasks[k].scheduledEnd = lastOp.before[k].scheduledEnd
                /\ tasks[k].isFixed = lastOp.before[k].isFixed
                /\ tasks[k].schedulingReason = lastOp.before[k].schedulingReason

\* a task with a scheduled start and a scheduled end
IsScheduled(t) == t.scheduledStart # None /\ t.scheduledEnd # None

\* every scheduled task of the list has end = start + duration > start
Consistent(ts) ==
    \A k \in DOMAIN ts :
        IsScheduled(ts[k]) =>
            /\ ts[k].scheduledEnd = addMinutes(ts[k].scheduledStart, ts[k].durationMinutes)
            /\ ts[k].scheduledEnd > ts[k].scheduledStart

\* the positions at which the last operation changed the task
ChangedByOp == { k \in DOMAIN tasks : tasks[k] # lastOp.before[k] }

\* C14: for any task list in which every scheduled task has end = start +
\* duration > start, the result of resolve_conflicts contains no two tasks that
\* are scheduled, not Done, and overlap with positive measure.
C14_ResolvedNoOverlap ==
    (Applied("resolve") /\ Consistent(lastOp.before)) =>
        \A j, k \in DOMAIN tasks :
            (/\ j # k
             /\ IsScheduled(tasks[j]) /\ tasks[j].status # "Done"
             /\ IsScheduled(tasks[k]) /\ tasks[k].status # "Done")
            => ~Overlaps(tasks[j].scheduledStart, tasks[j].scheduledEnd,
                         tasks[k].scheduledStart, tasks[k].scheduledEnd)

\* a consistent list in which two tasks had to be shifted, the second one behind
\* the first one's new place
C14_Witness ==
    /\ Applied("resolve")
    /\ Consistent(lastOp.before)
    /\ \E j, k \in ChangedByOp :
          /\ j # k
          /\ tasks[k].scheduledStart = tasks[j].scheduledEnd

MovedByCascade ==
    { k \in DOMAIN tasks :
        \/ tasks[k].id = lastOp.id
        \/ tasks[k].scheduledStart # lastOp.before[k].scheduledStart
        \/ tasks[k].scheduledEnd # lastOp.before[k].scheduledEnd }

\* C16: after cascade_move (the dependency graphs of the model are acyclic), for
\* every task n the call moved, every scheduled task whose dependencies include
\* n starts at or after n's new end, and every scheduled dependency of n ends
\* at or before n's new start.
C16_CascadeOrder ==
    Applied("cascade") =>
        \A n \in MovedByCascade : \A k \in DOMAIN tasks :
            /\ (/\ tasks[n].id \in Range(tasks[k].dependencies)
                /\ tasks[k].scheduledStart # None)
               => tasks[k].scheduledStart >= tasks[n].scheduledEnd
            /\ (/\ tasks[k].id \in Range(tasks[n].dependencies)
                /\ tasks[k].scheduledEnd # None)
               => tasks[k].scheduledEnd <= tasks[n].scheduledStart

\* the last operation dropped its target where the target already was
DroppedInPlace ==
    /\ Applied("cascade")
    /\ \E k \in DOMAIN lastOp.before :
          /\ lastOp.before[k].id = lastOp.id
          /\ lastOp.before[k].scheduledStart = lastOp.start

\* C17 as stated: cascade_move of a scheduled task to its current scheduled
\* start returns a task set equal to the input in every attribute of every task.
C17_Original == DroppedInPlace => tasks = lastOp.before

\* the target of the last cascade_move, as it was, is in order with its
\* neighbours: its end is its start plus its duration, no scheduled task that
\* depends on it starts before its end, none of its dependencies ends after its start
TargetInOrder ==
    \A n \in DOMAIN lastOp.before :
        LET b == lastOp.before
        IN b[n].id = lastOp.id =>
              /\ b[n].scheduledEnd = addMinutes(b[n].scheduledStart, b[n].durationMinutes)
              /\ \A k \in DOMAIN b :
                    /\ (b[n].id \in Range(b[k].dependencies) /\ b[k].scheduledStart # None)
                       => b[k].scheduledStart >= b[n].scheduledEnd
                    /\ (b[k].id \in Range(b[n].dependencies) /\ b[k].scheduledEnd # None)
                       => b[k].scheduledEnd <= b[n].scheduledStart

\* C17 amended: cascade_move of a scheduled task n to its current scheduled
\* start returns n with that start, with end = start + duration, marked fixed
\* and with the reason "Manually moved by user", its other attributes as they
\* were; and when n was in order with its neighbours every other task is
\* returned equal to the input in every attribute.
C17_InPlaceMarksTarget ==
    DroppedInPlace =>
        \A k \in DOMAIN tasks :
            IF tasks[k].id = lastOp.id
            THEN tasks[k] = [lastOp.before[k] EXCEPT
                                !.scheduledEnd = addMinutes(lastOp.start,
                                                            lastOp.before[k].durationMinutes),
                                !.isFixed = TRUE,
                                !.schedulingReason = "Manually moved by user"]
            ELSE TargetInOrder => tasks[k] = lastOp.before[k]

\* a task with a scheduled dependency before it and a scheduled follower after it
\* was dropped where it was
C17_Witness ==
    /\ DroppedInPlace
    /\ TargetInOrder
    /\ \E n, j, k \in DOMAIN tasks :
          /\ tasks[n].id = lastOp.id
          /\ tasks[j].id \in Range(tasks[n].dependencies) /\ tasks[j].scheduledEnd # None
          /\ tasks[n].id \in Range(tasks[k].dependencies) /\ tasks[k].scheduledStart # None
          /\ tasks[n].isFixed /\ ~lastOp.before[n].isFixed

\* ==== properties of the drift ================================================
\* C18: for a task set that does not change, drift is monotone in time: the
\* drift at a later moment is at least the drift at an earlier one, drift being
\* the largest number of whole minutes by which a task that is not Done has run
\* over its scheduled end, and 0 when there is none.
C18_DriftMonotone ==
    [][(tasks' = tasks /\ now' > now) => checkDrift(tasks', now') >= checkDrift(tasks, now)]_vars

\* the clock went on after a check, the drift has grown since, and a Done task
\* that ended earlier than every task counted is in the list
C18_Witness ==
    /\ pc = "idle"
    /\ driftMinutes > 0
    /\ checkDrift(tasks, now) > driftMinutes
    /\ \E k \in DOMAIN tasks :
          /\ tasks[k].status = "Done"
          /\ differenceInMinutes(now, tasks[k].scheduledEnd) > 0

\* ==== scenario S4 and the rejected task =======================================
\* work 09-12, chunking on (30 / 15 / 30, cadence 2), now = Monday 09:00, no
\* fixed task and the single 120-minute task S
S4Input ==
    /\ settings = Settings(9, 12, {1, 3, 4}, TRUE)
    /\ currentDate = Mon(9, 0, 0)
    /\ fixedTasks = << >>
    /\ Len(unscheduledTasks) = 1
    /\ unscheduledTasks[1].id = "S"
    /\ unscheduledTasks[1].durationMinutes = 120

\* the start and end of each entry, for slots and for tasks
SlotIntervals(slots) == [k \in DOMAIN slots |-> <<slots[k].start, slots[k].end>>]
TaskIntervals(ts) == [k \in DOMAIN ts |-> <<ts[k].scheduledStart, ts[k].scheduledEnd>>]

\* the entries of that first day
OnMonday(seq, startOf(_)) == SelectSeq(seq, LAMBDA x : startOf(x) < Tue(0, 0, 0))

\* C19 as stated: in scenario S4 the task is placed in exactly the three focus
\* slots 09:00-09:30, 09:45-10:15 and 10:45-11:15.
C19_Original ==
    (S4Input /\ Returned) =>
        TaskIntervals(scheduledTasks) =
            << <<Mon(9, 0, 0), Mon(9, 30, 0)>>, <<Mon(9, 45, 0), Mon(10, 15, 0)>>,
               <<Mon(10, 45, 0), Mon(11, 15, 0)>> >>

\* C19 amended: in scenario S4 the rhythm yields on the first day focus
\* 09:00-09:30, short break 09:30-09:45, focus 09:45-10:15, long break
\* 10:15-10:45, focus 10:45-11:15, short break 11:15-11:30 and focus
\* 11:30-12:00, and the 120-minute task is placed in exactly those four focus
\* slots, as parts 1 to 4 of 30 minutes each.
C19_ScenarioS4 ==
    /\ (S4Input /\ ChunkingDone) =>
          SlotIntervals(OnMonday(finalWorkSlots, LAMBDA x : x.start)) =
              << <<Mon(9, 0, 0), Mon(9, 30, 0)>>, <<Mon(9, 45, 0), Mon(10, 15, 0)>>,
                 <<Mon(10, 45, 0), Mon(11, 15, 0)>>, <<Mon(11, 30, 0), Mon(12, 0, 0)>> >>
    /\ (S4Input /\ (ChunkingDone \/ Returned)) =>
          LET breaks == OnMonday(generatedBreaks, LAMBDA x : x.scheduledStart)
          IN /\ TaskIntervals(breaks) =
                   << <<Mon(9, 30, 0), Mon(9, 45, 0)>>, <<Mon(10, 15, 0), Mon(10, 45, 0)>>,
                      <<Mon(11, 15, 0), Mon(11, 30, 0)>> >>
             /\ [k \in DOMAIN breaks |-> breaks[k].title] =
                   <<"Short Break", "Long Break", "Short Break">>
    /\ (S4Input /\ Returned) =>
          /\ TaskIntervals(scheduledTasks) =
                << <<Mon(9, 0, 0), Mon(9, 30, 0)>>, <<Mon(9, 45, 0), Mon(10, 15, 0)>>,
                   <<Mon(10, 45, 0), Mon(11, 15, 0)>>, <<Mon(11, 30, 0), Mon(12, 0, 0)>> >>
          /\ \A k \in DOMAIN scheduledTasks :
                /\ scheduledTasks[k].originalTaskId = "S"
                /\ scheduledTasks[k].partIndex = k
                /\ scheduledTasks[k].durationMinutes = 30
          /\ Len(unscheduled) = 0

\* the plan of scenario S4 is returned with the task in four parts
C19_Witness ==
    /\ S4Input
    /\ Returned
    /\ Len(scheduledTasks) = 4
    /\ Len(generatedBreaks) > 3

\* C20: when a task cannot be fully placed, the free slot list after the
\* attempt is the slot list before the attempt: every consumption or split made
\* for that task is undone.
C20_SlotsRestored ==
    (pc = "pick" /\ task # 0 /\ remainingDuration > 0) =>
        finalWorkSlots = slotsBeforeAttempt

\* ==== properties of the placement pass ======================================
\* the task picked last has just been placed: its parts are in taskParts
JustCommitted ==
    pc = "pick" /\ task # 0 /\ remainingDuration <= 0 /\ scheduledEndTime # None

\* the whole minutes (counted from day 0) covered by the slots of a list, and by
\* the parts of a task; slots and parts begin and end on whole minutes
MinutesOfSlots(slots) ==
    UNION { (slots[k].start \div MINUTE)..((slots[k].end \div MINUTE) - 1) : k \in DOMAIN slots }
MinutesOfParts(parts) ==
    UNION { (parts[k].scheduledStart \div MINUTE)..((parts[k].scheduledEnd \div MINUTE) - 1) :
            k \in DOMAIN parts }

\* C21: after a task is successfully placed, the free slot list covers exactly
\* the free time it covered before the attempt minus the intervals of the
\* task's placed parts; the tail a part leaves unconsumed stays in the list.
C21_SlotsMinusParts ==
    JustCommitted =>
        MinutesOfSlots(finalWorkSlots) =
            MinutesOfSlots(slotsBeforeAttempt) \ MinutesOfParts(taskParts)

\* C22: at every point of a placement pass the free slot list is sorted by
\* start, its slots are pairwise disjoint, and no slot overlaps a part already
\* accepted into the scheduled output.
C22_SlotListOrdered ==
    /\ \A k \in 1..(Len(finalWorkSlots) - 1) :
          /\ finalWorkSlots[k].start <= finalWorkSlots[k + 1].start
          /\ finalWorkSlots[k].end <= finalWorkSlots[k + 1].start
    /\ \A k \in DOMAIN finalWorkSlots : \A p \in DOMAIN scheduledTasks :
          ~Overlaps(finalWorkSlots[k].start, finalWorkSlots[k].end,
                    scheduledTasks[p].scheduledStart, scheduledTasks[p].scheduledEnd)

\* with a task already accepted, a part was cut out of the middle of a slot,
\* which left a head and a tail
C22_Witness ==
    /\ pc = "fit"
    /\ Len(scheduledTasks) > 0
    /\ Len(taskParts) > 0
    /\ Len(finalWorkSlots) = Len(slotsBeforeAttempt) + 1

\* the identifiers of the pending pool
PendingIds == { pendingTasks[j].id : j \in DOMAIN pendingTasks }

\* every dependency of the pending task k names no pending task
DanglingOnly(k) == \A d \in Range(pendingTasks[k].dependencies) : d \notin PendingIds

\* C23: a task is picked only when each of its dependency identifiers is in the
\* completion times or is not the id of a pending task; a dependency id that
\* names no pending and no fixed task neither delays nor blocks the task; and
\* each pending task is picked at most once.
C23_ReadyWhenPicked ==
    /\ pc = "fit" =>
          \A d \in Range(pendingTasks[task].dependencies) :
              d \in DOMAIN taskCompletionTimes \/ d \notin PendingIds
    /\ (pc = "fit"
        /\ \A d \in Range(pendingTasks[task].dependencies) :
              d \notin PendingIds /\ d \notin { fixedTasks[j].id : j \in DOMAIN fixedTasks })
       => dependencyConstraint =
             IF pendingTasks[task].earliestStart # None
                /\ pendingTasks[task].earliestStart > currentDate
             THEN pendingTasks[task].earliestStart ELSE currentDate
    /\ pc \in {"finish", "done"} =>
          \A k \in DOMAIN pendingTasks :
              DanglingOnly(k) => pendingTasks[k].id \in Range(processedIds)
    /\ Cardinality(Range(processedIds)) = Len(processedIds)

\* a task whose only dependency names no pending and no fixed task was picked
C23_Witness ==
    /\ Returned
    /\ \E k \in DOMAIN pendingTasks :
          /\ Len(pendingTasks[k].dependencies) > 0
          /\ \A d \in Range(pendingTasks[k].dependencies) :
                d \notin PendingIds /\ d \notin { fixedTasks[j].id : j \in DOMAIN fixedTasks }
          /\ pendingTasks[k].id \in Range(processedIds)

\* the ready list as it was when the task now being fitted was picked
ReadyAtPick ==
    LET before == Range(SubSeq(processedIds, 1, Len(processedIds) - 1))
    IN SelectSeq(Indices(pendingTasks), LAMBDA k :
           /\ pendingTasks[k].id \notin before
           /\ \A d \in Range(pendingTasks[k].dependencies) :
                 d \in DOMAIN taskCompletionTimes \/ d \notin PendingIds)

\* the pick was made on a todo turn (the bit has been flipped since)
TodoTurnAtPick == ~alternateTodo

\* the top-ranked entry of a queue
Top(queue) == sortByScore(queue, Len(queue))[1]

\* C24: at each pick, if some ready todo-list task has a deadline the top-ranked
\* such task is picked whatever the alternation bit; otherwise the top todo-list
\* task on a todo turn and the top project task on a project turn, falling back
\* to the other queue when the turn's queue is empty; the bit starts on the todo
\* turn and is flipped after every pick, also one that ends in unscheduled.
C24_SelectionPolicy ==
    /\ pc = "fit" =>
          LET todos == SelectSeq(ReadyAtPick, LAMBDA k : pendingTasks[k].isTodoList)
              projects == SelectSeq(ReadyAtPick, LAMBDA k : ~pendingTasks[k].isTodoList)
              urgent == SelectSeq(todos, LAMBDA k : pendingTasks[k].deadline # None)
          IN task = IF Len(urgent) > 0 THEN Top(urgent)
                    ELSE IF TodoTurnAtPick
                         THEN (IF Len(todos) > 0 THEN Top(todos) ELSE Top(projects))
                         ELSE (IF Len(projects) > 0 THEN Top(projects) ELSE Top(todos))
    /\ alternateTodo <=> (Len(processedIds) % 2 = 0)

\* on a project turn a todo-list task with a deadline was picked while a project
\* task was ready too
C24_Witness ==
    /\ pc = "fit"
    /\ ~TodoTurnAtPick
    /\ pendingTasks[task].isTodoList
    /\ pendingTasks[task].deadline # None
    /\ \E k \in Range(ReadyAtPick) : ~pendingTasks[k].isTodoList

\* the weight of a priority level and the ranking score of a task
PriorityWeight(p) == IF p = "High" THEN 3 ELSE IF p = "Medium" THEN 2 ELSE 1
RankScore(t) ==
    PriorityWeight(t.priority) * 100
    + (IF t.deadline # None THEN 50 ELSE 0) + (IF t.latestEnd # None THEN 60 ELSE 0)

QueueOfPicked ==
    { k \in Range(ReadyAtPick) :
        /\ pendingTasks[k].isTodoList = pendingTasks[task].isTodoList
        /\ (pendingTasks[task].isTodoList /\ pendingTasks[task].deadline # None)
           => pendingTasks[k].deadline # None }

Later(a, b) == IF a >= b THEN a ELSE b
Earlier(a, b) == IF a <= b THEN a ELSE b

\* the earliest-start floor of a placed part: now, the completion time of every
\* dependency that has one, and the earliest start
StartFloor(p) ==
    LET withDeps == { taskCompletionTimes[d] :
                        d \in Range(p.dependencies) \cap DOMAIN taskCompletionTimes }
        bounds == {currentDate} \cup withDeps
                  \cup (IF p.earliestStart # None THEN {p.earliestStart} ELSE {})
    IN CHOOSE m \in bounds : \A x \in bounds : x <= m

\* C26: no placed part starts before the earliest-start floor of its task,
\* max(now, completion time of every dependency, earliest_start); in particular
\* no part starts before now, whether now carries seconds or not.
C26_StartFloor ==
    Returned =>
        \A p \in Range(scheduledTasks) :
            /\ p.scheduledStart >= StartFloor(p)
            /\ p.scheduledStart >= currentDate

\* the latest-end ceiling of a task with a deadline
DeadlineCeiling(t) ==
    IF t.latestEnd # None THEN Earlier(endOfDay(t.deadline), t.latestEnd)
    ELSE endOfDay(t.deadline)

\* C27: every placed part of a task with a deadline ends at or before the end
\* of the deadline's calendar day, and at or before the earlier of that and
\* latest_end when both are set; such a task is placed completely or not at all.
C27_DeadlineCeiling ==
    \A k \in DOMAIN pendingTasks :
        LET t == pendingTasks[k]
            ps == PartsById(t.id)
        IN t.deadline # None =>
              /\ \A j \in DOMAIN ps :
                    /\ ps[j].scheduledEnd <= endOfDay(t.deadline)
                    /\ ps[j].scheduledEnd <= DeadlineCeiling(t)
              /\ Len(ps) > 0 => SumDurations(ps, Len(ps)) = t.durationMinutes

\* a task with a deadline and an earlier latest end, of which a part had been
\* cut before the ceiling, was left out of the plan
C27_Witness ==
    /\ pc = "pick"
    /\ task # 0
    /\ pendingTasks[task].deadline # None
    /\ pendingTasks[task].latestEnd # None
    /\ remainingDuration > 0
    /\ remainingDuration < pendingTasks[task].durationMinutes
    /\ PartsById(pendingTasks[task].id) = << >>

\* the earliest moment of the 15-minute grid that is not before t
GridCeil(t) == ((t + 15 * MINUTE - 1) \div (15 * MINUTE)) * (15 * MINUTE)

\* the usable start and the usable end of slot k for the task being fitted
UsableStart(k) == Later(slotsBeforeAttempt[k].start, GridCeil(dependencyConstraint))
UsableEnd(k) ==
    IF latestConstraint # None THEN Earlier(slotsBeforeAttempt[k].end, latestConstraint)
    ELSE slotsBeforeAttempt[k].end

\* the candidate slots of the task being fitted
Candidates ==
    { k \in DOMAIN slotsBeforeAttempt :
        UsableStart(k) < UsableEnd(k) /\ UsableEnd(k) - UsableStart(k) >= 15 * MINUTE }

\* C28: the first part of an energy-tagged task starts at the usable start of
\* the candidate slot with the maximum energy score, the earliest usable start
\* among equal scores; a slot is a candidate iff its usable start
\* max(slot.start, ceil_15(floor)) is at least 15 minutes before
\* min(slot.end, ceiling); without an energy tag the walk starts at the first slot.
C28_EnergyStart ==
    (pc = "fit" /\ Len(taskParts) > 0) =>
        LET energy == pendingTasks[task].energy
            first == taskParts[1].scheduledStart
        IN IF energy = "none"
           THEN \E k \in Candidates :
                   /\ first = UsableStart(k)
                   /\ \A j \in Candidates : k <= j
           ELSE \E k \in Candidates :
                   /\ first = UsableStart(k)
                   /\ \A j \in Candidates :
                         \/ getEnergyScore(energy, UsableStart(j))
                               < getEnergyScore(energy, UsableStart(k))
                         \/ /\ getEnergyScore(energy, UsableStart(j))
                                  = getEnergyScore(energy, UsableStart(k))
                            /\ UsableStart(k) <= UsableStart(j)

\* ==== properties of the availability windows ================================
\* C29: the free windows are in chronological order and pairwise disjoint, each
\* starts and ends on the 15-minute grid with duration = end - start >= 15
\* minutes, and no window overlaps a fixed event that is not Done and starts on
\* the same calendar day.
C29_WindowsWellFormed ==
    /\ \A k \in 1..(Len(availableWindows) - 1) :
          availableWindows[k].end <= availableWindows[k + 1].start
    /\ \A k \in DOMAIN availableWindows :
          LET w == availableWindows[k]
          IN /\ OnGrid(w.start) /\ OnGrid(w.end)
             /\ w.duration * MINUTE = w.end - w.start
             /\ w.duration >= 15
             /\ \A f \in Range(fixedTasks) :
                   (/\ f.status # "Done"
                    /\ f.scheduledStart # None /\ f.scheduledEnd # None
                    /\ startOfDay(f.scheduledStart) = startOfDay(w.start))
                   => ~Overlaps(w.start, w.end, f.scheduledStart, f.scheduledEnd)

\* C30: no free window, focus slot or break begins before now; in particular
\* today contributes no window when now is at or after today's work end.
C30_NothingBeforeNow ==
    /\ \A k \in DOMAIN availableWindows : availableWindows[k].start >= currentDate
    /\ \A k \in DOMAIN finalWorkSlots : finalWorkSlots[k].start >= currentDate
    /\ \A k \in DOMAIN generatedBreaks : generatedBreaks[k].scheduledStart >= currentDate
    /\ \A k \in DOMAIN availableWindows :
          LET w == availableWindows[k]
              workEnd == startOfDay(currentDate) + settings.workEndHour * HOUR
          IN currentDate >= workEnd => startOfDay(w.start) # startOfDay(currentDate)

\* ==== properties of the work rhythm, continued ==============================
\* the chunking loop is running or has just ended
Chunking == settings.enableChunking /\ (pc = "chunk" \/ ChunkingDone)

\* C31: with chunking enabled the counter c is the number of focus slots carved
\* so far in the whole plan, never reset between windows or days, and a break
\* emitted after the c-th focus slot is Long exactly when c is a multiple of the
\* long-break cadence, otherwise Short.
C31_GlobalCounter ==
    Chunking =>
        /\ chunkCounter = Len(finalWorkSlots)
        /\ \A b \in DOMAIN generatedBreaks :
              \E c \in DOMAIN finalWorkSlots :
                  /\ finalWorkSlots[c].end = generatedBreaks[b].scheduledStart
                  /\ generatedBreaks[b].title =
                        IF c % settings.longBreakInterval = 0 THEN "Long Break"
                        ELSE "Short Break"

\* a Long break was emitted in a later window after a focus slot whose number
\* inside its own window is not a multiple of the cadence
C31_Witness ==
    /\ ChunkingDone
    /\ \E b \in DOMAIN generatedBreaks : \E w \in DOMAIN availableWindows :
          LET win == availableWindows[w]
              br == generatedBreaks[b]
              inWindow == { n \in DOMAIN finalWorkSlots :
                              /\ win.start <= finalWorkSlots[n].start
                              /\ finalWorkSlots[n].end <= br.scheduledStart }
          IN /\ w > 1
             /\ br.title = "Long Break"
             /\ win.start < br.scheduledStart /\ br.scheduledEnd <= win.end
             /\ Cardinality(inWindow) % settings.longBreakInterval # 0

\* the focus slots and the breaks cut from the free window win
PiecesOf(win) ==
    { [start |-> finalWorkSlots[n].start, end |-> finalWorkSlots[n].end,
       minutes |-> finalWorkSlots[n].duration, kind |-> "focus"] :
        n \in { m \in DOMAIN finalWorkSlots :
                  win.start <= finalWorkSlots[m].start /\ finalWorkSlots[m].start < win.end } }
    \cup
    { [start |-> generatedBreaks[n].scheduledStart, end |-> generatedBreaks[n].scheduledEnd,
       minutes |-> generatedBreaks[n].durationMinutes, kind |-> "break"] :
        n \in { m \in DOMAIN generatedBreaks :
                  /\ win.start <= generatedBreaks[m].scheduledStart
                  /\ generatedBreaks[m].scheduledStart < win.end } }

\* C32: with chunking enabled the focus slots and breaks of one free window
\* are pairwise disjoint, alternate starting with a focus slot, cover the window
\* exactly without a gap, each is a multiple of 15 minutes and at least 15 long,
\* a focus slot at most round_15(focus_chunk_minutes); with chunking disabled
\* the work slots are the free windows and there is no break.
C32_WindowPartition ==
    /\ ChunkingDone =>
          /\ \A w \in DOMAIN availableWindows :
                LET win == availableWindows[w]
                    pieces == PiecesOf(win)
                IN /\ \E p \in pieces : p.start = win.start /\ p.kind = "focus"
                   /\ \A p \in pieces :
                         /\ p.end - p.start = p.minutes * MINUTE
                         /\ p.minutes % 15 = 0 /\ p.minutes >= 15
                         /\ p.kind = "focus" =>
                               p.minutes <= roundToNearest15(settings.workChunkMinutes)
                         /\ \/ p.end = win.end
                            \/ \E q \in pieces : q.start = p.end /\ q.kind # p.kind
                         /\ \A q \in pieces :
                               q # p => ~Overlaps(p.start, p.end, q.start, q.end)
          /\ Len(finalWorkSlots) + Len(generatedBreaks) =
                Cardinality(UNION { PiecesOf(availableWindows[w]) : w \in DOMAIN availableWindows })
    /\ (pc = "pick" /\ task = 0 /\ Len(processedIds) = 0 /\ ~settings.enableChunking) =>
          finalWorkSlots = availableWindows /\ generatedBreaks = << >>

\* a window was cut into a focus slot shorter than a whole chunk at its end,
\* after at least two breaks
C32_Witness ==
    /\ ChunkingDone
    /\ \E w \in DOMAIN availableWindows :
          LET pieces == PiecesOf(availableWindows[w])
          IN /\ Cardinality({ p \in pieces : p.kind = "break" }) >= 2
             /\ \E p \in pieces :
                   /\ p.kind = "focus" /\ p.end = availableWindows[w].end
                   /\ p.minutes < roundToNearest15(settings.workChunkMinutes)

\* ==== properties of the grid helpers ========================================
\* the latest moment of the 15-minute grid that is not after t
GridFloor(t) == (t \div (15 * MINUTE)) * (15 * MINUTE)

\* the moments of the input that the plan rounds to the grid
RoundedMoments ==
    {currentDate}
    \cup { fixedTasks[k].scheduledEnd : k \in DOMAIN fixedTasks }
    \cup { unscheduledTasks[k].earliestStart : k \in { j \in DOMAIN unscheduledTasks :
                                                unscheduledTasks[j].earliestStart # None } }

\* C33: for every moment t, also one whose minute is a multiple of 15 and whose
\* seconds are not zero, ceil_15(t) is the earliest grid boundary >= t (equal to
\* t iff t is on the grid) and floor_15(t) the latest grid boundary <= t.
C33_GridRounding ==
    pc # "idle" =>
        \A t \in RoundedMoments :
            /\ ceilTo15(t) = GridCeil(t)
            /\ ceilTo15(t) >= t
            /\ (ceilTo15(t) = t) <=> OnGrid(t)
            /\ floorTo15(t) = GridFloor(t)
            /\ floorTo15(t) <= t

\* ==== properties of the host operations, continued ==========================
\* the run of the last cascade_move, replayed on its input
LastCascade == cascadeRun(lastOp.before, lastOp.id, lastOp.start)

\* C34: cascade_move returns for every task list, also one whose dependencies
\* form a cycle and for a target id that names no task, and it gives no task a
\* start twice within one call.
C34_CascadeTerminates ==
    Applied("cascade") =>
        LET run == LastCascade
        IN /\ tasks = run.taskMap
           /\ \A a, b \in DOMAIN run.moves : a # b => run.moves[a] # run.moves[b]
           /\ Len(run.moves) <= Len(lastOp.before)
           /\ Range(run.moves) \subseteq run.visited
           /\ (\A k \in DOMAIN lastOp.before : lastOp.before[k].id # lastOp.id)
              => run.moves = << >> /\ tasks = lastOp.before

\* two tasks that depend on each other were both moved by one call
C34_Witness ==
    /\ Applied("cascade")
    /\ \E j, k \in DOMAIN tasks :
          /\ j # k
          /\ tasks[j].id \in Range(tasks[k].dependencies)
          /\ tasks[k].id \in Range(tasks[j].dependencies)
          /\ {tasks[j].id, tasks[k].id} \subseteq Range(LastCascade.moves)

\* the attributes of a task that no host operation writes
SameShape(a, b) ==
    /\ a.id = b.id /\ a.durationMinutes = b.durationMinutes
    /\ a.dependencies = b.dependencies /\ a.status = b.status

\* C35: every task cascade_move changes ends with end = start + duration, is
\* fixed and has the reason 'Manually moved by user', its duration, dependencies
\* and status as before; every task the traversal does not visit is returned
\* unchanged; the result has the ids of the input in the order of the input.
C35_CascadeFrame ==
    Applied("cascade") =>
        /\ Len(tasks) = Len(lastOp.before)
        /\ \A k \in DOMAIN tasks :
              /\ SameShape(tasks[k], lastOp.before[k])
              /\ k \in ChangedByOp =>
                    /\ tasks[k].scheduledStart # None
                    /\ tasks[k].scheduledEnd =
                          addMinutes(tasks[k].scheduledStart, tasks[k].durationMinutes)
                    /\ tasks[k].isFixed
                    /\ tasks[k].schedulingReason = "Manually moved by user"
              /\ tasks[k].id \notin LastCascade.visited => tasks[k] = lastOp.before[k]
              /\ tasks[k].id = lastOp.id => tasks[k].scheduledStart = lastOp.start

\* the call changed its target and another task, and left a third one alone,
\* in a list with a task whose end was not its start plus its duration
C35_Witness ==
    /\ Applied("cascade")
    /\ Cardinality(ChangedByOp) >= 2
    /\ \E k \in DOMAIN tasks :
          tasks[k].id \notin LastCascade.visited /\ IsScheduled(tasks[k])
    /\ \E k \in ChangedByOp :
          lastOp.before[k].scheduledEnd #
              addMinutes(lastOp.before[k].scheduledStart, lastOp.before[k].durationMinutes)

\* the tasks resolve_conflicts looks at, and their order by start in its input
\* (tasks with one start in the order of the list)
Resolvable == { k \in DOMAIN lastOp.before :
                  IsScheduled(lastOp.before[k]) /\ lastOp.before[k].status # "Done" }
StartsBefore(j, k) ==
    \/ lastOp.before[j].scheduledStart < lastOp.before[k].scheduledStart
    \/ lastOp.before[j].scheduledStart = lastOp.before[k].scheduledStart /\ j < k
PredecessorOf(j, k) ==
    /\ j \in Resolvable /\ k \in Resolvable /\ j # k /\ StartsBefore(j, k)
    /\ \A m \in Resolvable \ {j, k} : ~(StartsBefore(j, m) /\ StartsBefore(m, k))

\* C36: resolve_conflicts shifts only to the right: no task starts earlier than
\* in the input; a changed task is scheduled, not Done, began before the end
\* its predecessor in start order has in the result and begins at that end, with
\* end = start + duration, fixed, reason 'Auto-resolved conflict'; the result
\* has the tasks of the input in the order of the input.
C36_ResolveShiftsRight ==
    Applied("resolve") =>
        /\ Len(tasks) = Len(lastOp.before)
        /\ \A k \in DOMAIN tasks :
              /\ SameShape(tasks[k], lastOp.before[k])
              /\ (lastOp.before[k].scheduledStart = None) <=> (tasks[k].scheduledStart = None)
              /\ tasks[k].scheduledStart >= lastOp.before[k].scheduledStart
              /\ k \in ChangedByOp =>
                    /\ k \in Resolvable
                    /\ \E j \in Resolvable :
                          /\ PredecessorOf(j, k)
                          /\ lastOp.before[k].scheduledStart < tasks[j].scheduledEnd
                          /\ tasks[k].scheduledStart = tasks[j].scheduledEnd
                    /\ tasks[k].scheduledEnd =
                          addMinutes(tasks[k].scheduledStart, tasks[k].durationMinutes)
                    /\ tasks[k].isFixed
                    /\ tasks[k].schedulingReason = "Auto-resolved conflict"

\* a task was shifted behind a predecessor that had been shifted itself, while
\* a Done task that the shifted tasks overlap stayed where it was
C36_Witness ==
    /\ Applied("resolve")
    /\ \E j, k \in ChangedByOp : PredecessorOf(j, k)
    /\ \E d \in DOMAIN tasks : \E k \in ChangedByOp :
          /\ tasks[d].status = "Done" /\ IsScheduled(tasks[d])
          /\ Overlaps(tasks[d].scheduledStart, tasks[d].scheduledEnd,
                      tasks[k].scheduledStart, tasks[k].scheduledEnd)

\* the task carries the project marker of a break
IsBreak(t) == t.projectId = "system-break"

\* C37: resolve_conflicts leaves break tasks out of its accounting: it never
\* changes the start or end of a break task, and the other tasks are shifted as
\* they would be were the break tasks not in the list.
C37_BreaksExcluded ==
    Applied("resolve") =>
        /\ \A k \in DOMAIN tasks :
              IsBreak(lastOp.before[k]) =>
                  /\ tasks[k].scheduledStart = lastOp.before[k].scheduledStart
                  /\ tasks[k].scheduledEnd = lastOp.before[k].scheduledEnd
        /\ SelectSeq(tasks, LAMBDA t : ~IsBreak(t))
              = resolveOverlaps(SelectSeq(lastOp.before, LAMBDA t : ~IsBreak(t)))

\* ==== properties of the warnings ============================================
\* scheduled project tasks that end after the end of their deadline's day
SlippedPastDay ==
    SelectSeq(scheduledTasks, LAMBDA t :
        /\ ~t.isTodoList /\ t.deadline # None /\ t.scheduledEnd # None
        /\ t.scheduledEnd > endOfDay(t.deadline))

\* a High todo-list task is among the scheduled entries
HighTodoPlaced ==
    \E k \in DOMAIN scheduledTasks :
        scheduledTasks[k].isTodoList /\ scheduledTasks[k].priority = "High"

\* C38: the warning about project tasks pushed past their deadlines is emitted
\* exactly when a High todo-list task was placed and N > 0, N being the number
\* of scheduled project tasks that end after the end of their deadline's
\* calendar day, and it reports N.
C38_DeadlineWarning ==
    Returned =>
        /\ (warnings # << >>) <=> (HighTodoPlaced /\ Len(SlippedPastDay) > 0)
        /\ warnings # << >> => warnings = <<Len(SlippedPastDay)>>

\* ==== properties of the part identifiers ====================================
\* the task was split: at least two scheduled entries were cut from it
IsSplit(id) == Len(PartsOf(id)) >= 2

\* no two scheduled entries have the same id text
UniqueIds ==
    \A j, k \in DOMAIN scheduledTasks :
        j # k => idText(scheduledTasks[j].id) # idText(scheduledTasks[k].id)

\* the parts of a split task carry the part indices 1..k, in this order
IndexedParts ==
    \A k \in DOMAIN scheduledTasks :
        LET ps == PartsOf(scheduledTasks[k].originalTaskId)
        IN \A j \in DOMAIN ps : ps[j].partIndex = j

\* C39 as stated: every part of a split task, the first included, has the id
\* '{id}-part-{j}' with j its part_index, and no two scheduled entries share an id.
C39_Original ==
    Returned =>
        /\ \A k \in DOMAIN scheduledTasks :
              LET e == scheduledTasks[k]
              IN IsSplit(e.originalTaskId) =>
                    idText(e.id) = e.originalTaskId \o "-part-" \o ToString(e.partIndex)
        /\ IndexedParts
        /\ UniqueIds

\* C39 (amended): of a task split into k >= 2 parts the first part keeps the
\* task's own id and part j, for j in 2..k, has the id '{id}-part-{j}', j being
\* its part_index; the part indices are 1..k and no two scheduled entries share
\* an id.
C39_PartIds ==
    Returned =>
        /\ \A k \in DOMAIN scheduledTasks :
              LET e == scheduledTasks[k]
              IN IsSplit(e.originalTaskId) =>
                    idText(e.id) = IF e.partIndex = 1 THEN e.originalTaskId
                                   ELSE e.originalTaskId \o "-part-" \o ToString(e.partIndex)
        /\ IndexedParts
        /\ UniqueIds

\* a run returned a task in three parts next to another scheduled task
C39_Witness ==
    /\ Returned
    /\ \E j, k \in DOMAIN scheduledTasks :
          /\ Len(PartsOf(scheduledTasks[j].originalTaskId)) >= 3
          /\ scheduledTasks[k].originalTaskId # scheduledTasks[j].originalTaskId

\* ==== properties of the auto-schedule action ================================
\* a run of handleAutoSchedule has just written the list
AutoApplied == lastOp.op = "auto"

\* C40: a run of handleAutoSchedule preserves the task set: every task that was
\* in the list before, break entries apart, is still present under its root id,
\* and no id occurs more than once in the list.
C40_TaskSetPreserved ==
    AutoApplied =>
        /\ \A k \in DOMAIN lastOp.before :
              lastOp.before[k].projectId # "system-break" =>
                  \E j \in DOMAIN tasks : rootId(tasks[j]) = rootId(lastOp.before[k])
        /\ \A j, k \in DOMAIN tasks : j # k => tasks[j].id # tasks[k].id

====
